---- MODULE Spec2Model ----
(***************************************************************************)
(* Reconciliation engine of todoist-bridge.                                *)
(*                                                                         *)
(* One-way sources (Google Tasks, Alexa reminders, Alexa shopping list)    *)
(* are mirrored into Todoist; the Microsoft To-Do source is synchronised   *)
(* in both directions.  A pass is a sequence of awaited calls, so it is    *)
(* modelled as a sequence of steps (sweep and fetch, one step per fetched  *)
(* item, one step per stored row of the deletion phase, the end of the     *)
(* pass).  Every external call of a step either succeeds or fails after    *)
(* its retries.  The platforms' users edit items between passes.           *)
(*                                                                         *)
(* Boundary assumptions (external services, not code of the repository):   *)
(*   - TodoistApi.getTasks lists every task of the project that was not    *)
(*     deleted; TodoistApi.addTask returns a fresh id;                     *)
(*   - a Google task always carries its `updated` stamp, and lists with    *)
(*     showCompleted=false omit completed tasks;                           *)
(*   - labels are numbered, times and dates are small naturals.            *)
(***************************************************************************)
EXTENDS Integers, Sequences, FiniteSets, TLC

----------------------------------------------------------------------------
(* Bounds of the model *)

MaxItems == 2
MaxEnv == 3
MaxPasses == 2
MaxFails == 1

NativeIds == 1..MaxItems

(* null / undefined of an optional time stamp, date or parent reference *)
Null == 0

Dates == {2}
Titles == {"a", "b"}

Labels == {1, 2}
TagChoices == {<<>>, <<1>>, <<1, 2>>, <<2, 1>>}

Sources == {"google", "reminders", "shopping"}

----------------------------------------------------------------------------
(* State *)

VARIABLES
  source,      \* which one-way source engine runs
  mapping,     \* the mapping: include_completed, delete_after_sync, tags
  tzWest,      \* the process's time zone lies west of UTC
  imported,    \* sync_state.completed_tasks_imported
  remote,      \* the native platform: id -> item, or NoItem
  todoist,     \* the mirrored service: sequence of tasks, index = task id
  rows,        \* the snapshot table: native id -> row, or NoRow
  clock,       \* the native platform's modification clock
  pc,          \* position of the pass: idle, run
  queue,       \* work left in the pass: the fetched items in processing
               \* order, then the stored rows whose id was not fetched
  sweepOutcome, \* how the stale-cache sweep of the pass went
  fetchOutcome, \* how the fetch of the remote items went
  rowsBefore,  \* the rows as the pass found them, before its sweep
  prevFetched, \* the native ids the previous pass fetched
  fetched,     \* googleTasks / activeReminders / alexaItems: the items the
               \* pass fetched, by native id
  storedAtFetch, \* storedTasks / storedMap: the rows read after the fetch
  result,      \* the SyncResult being accumulated (the last one when idle)
  calls,       \* external calls issued by the current (or last) pass
  passes,      \* number of passes finished
  envSteps,    \* number of user actions so far
  fails,       \* number of injected call failures so far
  nextNative,  \* next id the native platform assigns
  dirty,       \* a user acted since the last pass
  clean,       \* no call of the current (or last) pass failed
  steady,      \* the pass follows a clean pass with no user action between
  filterActive, \* Microsoft: exclude_others_assignments with a known user id
  tdFetched,   \* Microsoft: todoistTasks, the project's tasks as fetched
  seenTodoistIds, \* Microsoft: seenTodoistIds of the running pass
  skipped,     \* Microsoft: the work an exception made the pass leave out
  triple,      \* conflict resolution on its own: the arguments
  winner,      \* conflict resolution on its own: the value returned
  scopeOutcome, \* scopes of a pass: what goes wrong in each mapped list
  scopePhase,  \* scopes of a pass: the part of sync() that is running
  scopeIdx,    \* scopes of a pass: the list the running loop has reached
  reconciled,  \* scopes of a pass: the lists whose reconciliation ran
  managed,     \* the daemon: managedSources, each with its timer and pass
  isShuttingDown, \* the daemon: isShuttingDown
  storeClosed, \* the daemon: storage.close() was called
  args,        \* a function of the store or of a mapper on its own: the
               \* arguments it is called with
  ret          \* a function on its own: what it returned

vars == <<source, mapping, tzWest, imported, remote, todoist, rows, clock, pc,
          queue, sweepOutcome, fetchOutcome, rowsBefore, prevFetched,
          fetched, storedAtFetch, result, calls, passes, envSteps,
          fails, nextNative, dirty, clean, steady, filterActive, tdFetched,
          seenTodoistIds, skipped, triple, winner, scopeOutcome, scopePhase,
          scopeIdx, reconciled, managed, isShuttingDown, storeClosed,
          args, ret>>

(* the scopes of one pass, and the daemon around the passes *)
scopeVars == <<scopeOutcome, scopePhase, scopeIdx, reconciled>>

daemonVars == <<managed, isShuttingDown, storeClosed>>

(* a function called on its own *)
callVars == <<args, ret>>

(* state of the Microsoft engine and of the stand-alone conflict resolver, *)
(* which the one-way engines leave alone                                   *)
otherVars == <<filterActive, tdFetched, seenTodoistIds, skipped, triple,
               winner, scopeVars, daemonVars, callVars>>

NoItem == [present |-> FALSE]
NoRow == [present |-> FALSE]
NoCall == [fn |-> "none"]

(* applied_tags column: SQL NULL, or the JSON text of a label array *)
NullTags == [isNull |-> TRUE, json |-> <<>>]

fetchedIds == {n \in NativeIds : fetched[n].present}

----------------------------------------------------------------------------
(* core/types.ts *)

createEmptySyncResult ==
  [success |-> TRUE, created |-> 0, updated |-> 0, deleted |-> 0,
   completed |-> 0, deletedFromSource |-> 0, tagsUpdated |-> 0, errors |-> 0]

RECURSIVE Insert(_, _)
Insert(x, s) ==
  IF s = <<>> THEN <<x>>
  ELSE IF x <= Head(s) THEN <<x>> \o s
  ELSE <<Head(s)>> \o Insert(x, Tail(s))

RECURSIVE Sort(_)
Sort(s) == IF s = <<>> THEN <<>> ELSE Insert(Head(s), Sort(Tail(s)))

tagsEqualAlways(tags1, tags2) == TRUE

tagsEqualSameLength(tags1, tags2) == Len(tags1) = Len(tags2)

tagsEqual(tags1, tags2) ==
  IF Len(tags1) # Len(tags2) THEN FALSE
  ELSE \A i \in 1..Len(tags1) : Sort(tags1)[i] = Sort(tags2)[i]

stringifyTags(tags) ==
  IF Len(tags) > 0 THEN [isNull |-> FALSE, json |-> tags] ELSE NullTags

(* an applied_tags text that JSON.parse rejects *)
NotJson == [isNull |-> FALSE, json |-> <<0>>]

parseStoredTags(storedTags) ==
  IF storedTags.isNull THEN <<>>
  ELSE IF storedTags = NotJson THEN <<>>
  ELSE storedTags.json

----------------------------------------------------------------------------
(* The mirrored service (TodoistClient over the Todoist REST API) *)

Live(tid) == tid \in 1..Len(todoist) /\ todoist[tid].live

(* ids returned by getProjectTasks *)
ProjectTaskIds(td) == {t \in 1..Len(td) : td[t].live}

NewTask(nid, content, desc, due, labels, parentTid) ==
  [live |-> TRUE, nid |-> nid, content |-> content, desc |-> desc,
   due |-> due, labels |-> labels, done |-> FALSE, parent |-> parentTid]

(* An update's parameters: what TodoistClient.updateTask forwards *)
NoUpdate ==
  [hasContent |-> FALSE, content |-> "", hasDesc |-> FALSE, desc |-> "",
   hasDue |-> FALSE, due |-> Null, hasLabels |-> FALSE, labels |-> <<>>]

IsEmptyUpdate(u) == ~u.hasContent /\ ~u.hasDesc /\ ~u.hasDue /\ ~u.hasLabels

(* TodoistClient.updateTask: a null dueDate is not forwarded *)
ApplyUpdate(t, u) ==
  [t EXCEPT !.content = IF u.hasContent THEN u.content ELSE @,
            !.desc = IF u.hasDesc THEN u.desc ELSE @,
            !.due = IF u.hasDue /\ u.due # Null THEN u.due ELSE @,
            !.labels = IF u.hasLabels THEN u.labels ELSE @]

TdUpdate(td, tid, u) == [td EXCEPT ![tid] = ApplyUpdate(@, u)]
TdSetDone(td, tid, d) == [td EXCEPT ![tid].done = d]
TdDelete(td, tid) == [td EXCEPT ![tid].live = FALSE]

Call(op, nid, tid, ok, u) ==
  [op |-> op, nid |-> nid, tid |-> tid, ok |-> ok,
   content |-> u.hasContent \/ u.hasDesc \/ u.hasDue, labels |-> u.hasLabels]

----------------------------------------------------------------------------
(* Snapshot store (Storage) *)

Row(tid, item, due, tags, parentTid) ==
  [present |-> TRUE, tid |-> tid, title |-> item.title, notes |-> item.notes,
   done |-> item.done, due |-> due, upd |-> item.upd, tags |-> tags,
   parent |-> item.parent, parentTid |-> parentTid]

storageCreateNoId(rs, nid, row) ==
  [rs EXCEPT ![nid] = [row EXCEPT !.tid = Null]]

storageCreate(rs, nid, row) == [rs EXCEPT ![nid] = row]

storageDeleteNothing(rs, nid) == rs

storageDelete(rs, nid) == [rs EXCEPT ![nid] = NoRow]

getAllTasksWithTodoistId(rs) ==
  {n \in NativeIds : rs[n].present /\ rs[n].tid # Null}

cleanupStaleTasksAll(rs, validTodoistIds) == [n \in NativeIds |-> NoRow]

cleanupStaleTasks(rs, validTodoistIds) ==
  [n \in NativeIds |->
     IF n \in getAllTasksWithTodoistId(rs) /\ rs[n].tid \notin validTodoistIds
     THEN NoRow ELSE rs[n]]

----------------------------------------------------------------------------
(* sources/google/mapper.ts *)

(* parseISO + format(date, 'yyyy-MM-dd'): the local calendar day of a due  *)
(* stamp, which Google sets at midnight UTC                                *)
extractDateOnly(due, west) == IF west THEN due - 1 ELSE due

(* due.split('T')[0]: the day as written *)
splitDate(due) == due

mapGoogleToTodoistCreate(g, labels, parentTid, west) ==
  NewTask(Null, g.title, g.notes,
          IF g.due # Null THEN extractDateOnly(g.due, west) ELSE Null,
          labels, parentTid)

mapGoogleToTodoistUpdate(g, stored, west) ==
  LET newDue == IF g.due # Null THEN extractDateOnly(g.due, west) ELSE Null
  IN [NoUpdate EXCEPT
        !.hasContent = g.title # stored.title, !.content = g.title,
        !.hasDesc = g.notes # stored.notes, !.desc = g.notes,
        !.hasDue = newDue # stored.due, !.due = newDue]

(* parseISO of a stamp that is not a date gives an Invalid Date, which     *)
(* isValid rejects and which is neither later nor earlier than any date    *)
Unparseable == -1

isValid(stamp) == stamp # Unparseable

laterThan(a, b) == isValid(a) /\ isValid(b) /\ a > b

hasGoogleTaskChanged(g, stored, west) ==
  IF g.upd # Null /\ stored.upd # Null THEN laterThan(g.upd, stored.upd)
  ELSE \/ g.title # stored.title
       \/ g.notes # stored.notes
       \/ g.done # stored.done
       \/ (IF g.due # Null THEN extractDateOnly(g.due, west) ELSE Null)
            # stored.due

----------------------------------------------------------------------------
(* sources/alexa/mapper.ts *)

hasAlexaReminderChanged(r, stored) ==
  IF r.upd # Null /\ stored.upd # Null
       /\ isValid(r.upd) /\ isValid(stored.upd)
  THEN laterThan(r.upd, stored.upd)
  ELSE \/ r.title # stored.title
       \/ r.done # stored.done
       \/ r.due # stored.due

hasAlexaShoppingItemChanged(item, stored) ==
  IF item.upd # Null /\ stored.upd # Null
       /\ isValid(item.upd) /\ isValid(stored.upd)
  THEN laterThan(item.upd, stored.upd)
  ELSE \/ item.title # stored.title
       \/ item.done # stored.done

----------------------------------------------------------------------------
(* A step's working state: the stores and tallies it has changed so far.   *)
(* nf counts the injected failures it consumed.                            *)

Ctx ==
  [td |-> todoist, rs |-> rows, rem |-> remote, calls |-> calls,
   res |-> result, nf |-> 0, ok |-> TRUE]

Fail(F, slot) == slot \in F

(* a call to the mirrored service about an existing task *)
TdCall(c, F, slot, op, nid, tid, u) ==
  LET ok == ~Fail(F, slot) /\ c.td[tid].live
      td2 == IF ~ok THEN c.td
             ELSE IF op = "update" THEN TdUpdate(c.td, tid, u)
             ELSE IF op = "complete" THEN TdSetDone(c.td, tid, TRUE)
             ELSE IF op = "reopen" THEN TdSetDone(c.td, tid, FALSE)
             ELSE TdDelete(c.td, tid)
  IN [c EXCEPT !.td = td2, !.calls = Append(@, Call(op, nid, tid, ok, u)),
               !.nf = IF Fail(F, slot) THEN @ + 1 ELSE @, !.ok = ok]

(* createTask: the service assigns the next id *)
TdCreate(c, F, slot, nid, task) ==
  LET ok == ~Fail(F, slot)
      tid == Len(c.td) + 1
  IN [c EXCEPT !.td = IF ok THEN Append(@, [task EXCEPT !.nid = nid]) ELSE @,
               !.calls = Append(@, Call("create", nid,
                                        IF ok THEN tid ELSE Null, ok,
                                        [NoUpdate EXCEPT !.hasContent = TRUE,
                                           !.hasLabels = Len(task.labels) > 0])),
               !.nf = IF Fail(F, slot) THEN @ + 1 ELSE @, !.ok = ok]

(* a delete on the native platform (deleteTask / deleteReminder /          *)
(* deleteListItem), followed by the removal of the snapshot row            *)
SourceDelete(c, F, slot, nid) ==
  LET ok == ~Fail(F, slot)
  IN [c EXCEPT !.rem = IF ok THEN [@ EXCEPT ![nid] = NoItem] ELSE @,
               !.rs = IF ok THEN storageDelete(@, nid) ELSE @,
               !.res.deletedFromSource = IF ok THEN @ + 1 ELSE @,
               !.calls = Append(@, Call("srcDelete", nid, Null, ok, NoUpdate)),
               !.nf = IF Fail(F, slot) THEN @ + 1 ELSE @, !.ok = ok]

Count(c, field) == [c EXCEPT !.res[field] = @ + 1]

PushError(c) == [c EXCEPT !.res.errors = @ + 1]

Slots == 1..4

----------------------------------------------------------------------------
(* GoogleTasksSource *)

Tags == mapping.tags

shouldIncludeCompletedEveryPass == mapping.include_completed

shouldIncludeCompleted ==
  IF ~mapping.include_completed THEN FALSE ELSE ~imported

(* syncTask, no stored task: create in Todoist *)
syncTaskNew(n, g, parentTid, F) ==
  LET c1 == TdCreate(Ctx, F, 1, n,
                     mapGoogleToTodoistCreate(g, Tags, parentTid, tzWest))
      tid == Len(todoist) + 1
      c2 == [c1 EXCEPT !.rs = storageCreate(@, n,
                Row(tid, g, IF g.due # Null THEN splitDate(g.due) ELSE Null,
                    stringifyTags(Tags), parentTid))]
      c3 == IF g.done THEN TdCall(c2, F, 3, "complete", n, tid, NoUpdate)
            ELSE c2
      c4 == IF g.done THEN Count(c3, "completed") ELSE c3
      c5 == Count(c4, "created")
  IN IF ~c1.ok THEN c1
     ELSE IF ~c3.ok THEN c3
     ELSE IF mapping.delete_after_sync THEN SourceDelete(c5, F, 4, n)
     ELSE c5

(* syncTask, stored task found: push what changed *)
syncTaskExisting(n, g, stored, parentTid, F) ==
  LET taskChanged == hasGoogleTaskChanged(g, stored, tzWest)
      tagsChanged == ~tagsEqual(parseStoredTags(stored.tags), Tags)
      updateParams == IF taskChanged
                      THEN mapGoogleToTodoistUpdate(g, stored, tzWest)
                      ELSE NoUpdate
      c1 == IF tagsChanged /\ stored.tid # Null
            THEN LET d == TdCall(Ctx, F, 1, "update", n, stored.tid,
                                 [NoUpdate EXCEPT !.hasLabels = TRUE,
                                                  !.labels = Tags])
                 IN IF d.ok THEN Count(d, "tagsUpdated") ELSE d
            ELSE Ctx
      c2 == IF taskChanged /\ ~IsEmptyUpdate(updateParams) /\ stored.tid # Null
            THEN LET d == TdCall(c1, F, 2, "update", n, stored.tid,
                                 updateParams)
                 IN IF d.ok THEN Count(d, "updated") ELSE d
            ELSE c1
      c3 == IF g.done # stored.done /\ stored.tid # Null
            THEN IF g.done
                 THEN LET d == TdCall(c2, F, 3, "complete", n, stored.tid,
                                      NoUpdate)
                      IN IF d.ok THEN Count(d, "completed") ELSE d
                 ELSE TdCall(c2, F, 3, "reopen", n, stored.tid, NoUpdate)
            ELSE c2
      c4 == [c3 EXCEPT !.rs[n] =
               [@ EXCEPT !.title = g.title, !.notes = g.notes,
                         !.done = g.done,
                         !.due = IF g.due # Null THEN splitDate(g.due)
                                 ELSE Null,
                         !.parent = g.parent, !.parentTid = parentTid,
                         !.upd = g.upd, !.tags = stringifyTags(Tags)]]
      c5 == IF taskChanged \/ tagsChanged THEN c4 ELSE Ctx
  IN IF mapping.delete_after_sync /\ stored.tid # Null
     THEN SourceDelete(c5, F, 4, n)
     ELSE c5

syncTask(n, F) ==
  LET g == fetched[n]
      stored == storedAtFetch[n]
      (* storage.getTaskByGoogleId(googleTask.parent)?.todoist_id *)
      parentTid == IF g.parent # Null /\ rows[g.parent].present
                   THEN rows[g.parent].tid ELSE Null
  IN IF ~stored.present THEN syncTaskNew(n, g, parentTid, F)
     ELSE syncTaskExisting(n, g, stored, parentTid, F)

----------------------------------------------------------------------------
(* AlexaRemindersSource *)

(* extractDateTime: the reminder time as Todoist takes it (the time of day *)
(* is not modelled)                                                        *)
extractDateTime(t) == t

mapAlexaReminderToTodoistCreate(r, labels) ==
  NewTask(Null, r.title, r.notes,
          IF r.due # Null THEN extractDateTime(r.due) ELSE Null, labels, Null)

createReminder(c0, n, r, F) ==
  LET c1 == TdCreate(c0, F, 1, n, mapAlexaReminderToTodoistCreate(r, Tags))
      tid == Len(c0.td) + 1
      c2 == IF r.done THEN TdCall(c1, F, 3, "complete", n, tid, NoUpdate)
            ELSE c1
      c3 == [c2 EXCEPT !.rs = storageCreate(@, n,
                Row(tid, r, r.due, stringifyTags(Tags), Null))]
  IN IF ~c1.ok THEN PushError(c1)
     ELSE IF ~c2.ok THEN PushError(c2)
     ELSE c3

updateReminder(c0, n, r, stored, tagsChanged, F) ==
  LET u == [NoUpdate EXCEPT !.hasContent = TRUE, !.content = r.title,
                            !.hasDue = r.due # Null, !.due = splitDate(r.due),
                            !.hasLabels = tagsChanged, !.labels = Tags]
      c1 == TdCall(c0, F, 2, "update", n, stored.tid, u)
      c2 == [c1 EXCEPT !.rs[n] =
               [@ EXCEPT !.title = r.title, !.due = r.due, !.done = r.done,
                         !.notes = r.notes, !.upd = r.upd,
                         !.tags = stringifyTags(Tags)]]
  IN IF stored.tid = Null THEN createReminder(c0, n, r, F)
     ELSE IF ~c1.ok THEN PushError(c1)
     ELSE c2

(* sync(), the body of the loop over the fetched reminders *)
syncReminder(n, F) ==
  LET r == fetched[n]
      stored == storedAtFetch[n]
      reminderChanged == hasAlexaReminderChanged(r, stored)
      tagsChanged == ~tagsEqual(parseStoredTags(stored.tags), Tags)
      new == createReminder(Ctx, n, r, F)
      upd == updateReminder(Ctx, n, r, stored, tagsChanged, F)
      upd2 == IF ~upd.ok THEN upd
              ELSE LET t == IF tagsChanged THEN Count(upd, "tagsUpdated")
                            ELSE upd
                   IN IF reminderChanged THEN Count(t, "updated") ELSE t
      c == IF reminderChanged \/ tagsChanged THEN upd2 ELSE Ctx
  IN IF ~stored.present
     THEN IF ~new.ok THEN new
          ELSE IF mapping.delete_after_sync
               THEN SourceDelete(Count(new, "created"), F, 4, n)
               ELSE Count(new, "created")
     ELSE IF mapping.delete_after_sync /\ stored.tid # Null
          THEN SourceDelete(c, F, 4, n)
          ELSE c

----------------------------------------------------------------------------
(* AlexaShoppingSource *)

mapAlexaShoppingToTodoistCreate(item, labels) ==
  NewTask(Null, item.title, "", Null, labels, Null)

createItem(c0, n, item, F) ==
  LET c1 == TdCreate(c0, F, 1, n, mapAlexaShoppingToTodoistCreate(item, Tags))
      tid == Len(c0.td) + 1
      c2 == IF item.done THEN TdCall(c1, F, 3, "complete", n, tid, NoUpdate)
            ELSE c1
      c3 == [c2 EXCEPT !.rs = storageCreate(@, n,
                Row(tid, item, Null, stringifyTags(Tags), Null))]
  IN IF ~c1.ok THEN PushError(c1)
     ELSE IF ~c2.ok THEN PushError(c2)
     ELSE c3

updateItem(c0, n, item, stored, tagsChanged, F) ==
  LET u == [NoUpdate EXCEPT !.hasContent = TRUE, !.content = item.title,
                            !.hasLabels = tagsChanged, !.labels = Tags]
      c1 == TdCall(c0, F, 2, "update", n, stored.tid, u)
      c2 == IF item.done # stored.done
            THEN TdCall(c1, F, 3, IF item.done THEN "complete" ELSE "reopen",
                        n, stored.tid, NoUpdate)
            ELSE c1
      c3 == [c2 EXCEPT !.rs[n] =
               [@ EXCEPT !.title = item.title, !.done = item.done,
                         !.upd = item.upd, !.tags = stringifyTags(Tags)]]
  IN IF stored.tid = Null THEN createItem(c0, n, item, F)
     ELSE IF ~c1.ok THEN PushError(c1)
     ELSE IF ~c2.ok THEN PushError(c2)
     ELSE c3

(* sync(), the body of the loop over the fetched shopping items *)
syncShoppingItem(n, F) ==
  LET item == fetched[n]
      stored == storedAtFetch[n]
      itemChanged == hasAlexaShoppingItemChanged(item, stored)
      tagsChanged == ~tagsEqual(parseStoredTags(stored.tags), Tags)
      new == createItem(Ctx, n, item, F)
      upd == updateItem(Ctx, n, item, stored, tagsChanged, F)
      upd2 == IF ~upd.ok THEN upd
              ELSE LET t == IF tagsChanged THEN Count(upd, "tagsUpdated")
                            ELSE upd
                   IN IF itemChanged THEN Count(t, "updated") ELSE t
      c == IF itemChanged \/ tagsChanged THEN upd2 ELSE Ctx
  IN IF ~stored.present
     THEN IF ~new.ok THEN new
          ELSE IF mapping.delete_after_sync
               THEN SourceDelete(Count(new, "created"), F, 4, n)
               ELSE Count(new, "created")
     ELSE IF mapping.delete_after_sync /\ stored.tid # Null
          THEN SourceDelete(c, F, 4, n)
          ELSE c

----------------------------------------------------------------------------
(* The deletion phase of the three one-way engines: a stored row whose     *)
(* native id was not seen in the fetch                                     *)

deleteKeepRow(n, F) ==
  LET stored == storedAtFetch[n]
  IN TdCall(Ctx, F, 1, "delete", n, stored.tid, NoUpdate)

deleteStoredIfDeleted(n, F) ==
  LET c1 == TdCall(Ctx, F, 1, "delete", n, storedAtFetch[n].tid, NoUpdate)
  IN IF c1.ok THEN Count([c1 EXCEPT !.rs = storageDelete(@, n)], "deleted")
     ELSE c1

deleteStored(n, F) ==
  LET stored == storedAtFetch[n]
      c1 == IF stored.tid # Null
            THEN TdCall(Ctx, F, 1, "delete", n, stored.tid, NoUpdate)
            ELSE Ctx
  IN Count([c1 EXCEPT !.rs = storageDelete(@, n)], "deleted")

----------------------------------------------------------------------------
(* Initial state: a fresh database, empty platforms, some configuration *)

Mappings ==
  [include_completed : BOOLEAN, delete_after_sync : BOOLEAN,
   tags : {<<>>}]

NoTriple == [present |-> FALSE]

(* what every engine starts from *)
Fresh ==
  /\ imported = FALSE
  /\ remote = [n \in NativeIds |-> NoItem]
  /\ todoist = <<>>
  /\ rows = [n \in NativeIds |-> NoRow]
  /\ pc = "idle"
  /\ queue = <<>>
  /\ sweepOutcome = "ok"
  /\ fetchOutcome = "ok"
  /\ rowsBefore = [n \in NativeIds |-> NoRow]
  /\ prevFetched = {}
  /\ fetched = [n \in NativeIds |-> NoItem]
  /\ storedAtFetch = [n \in NativeIds |-> NoRow]
  /\ result = createEmptySyncResult
  /\ calls = <<>>
  /\ passes = 0
  /\ envSteps = 0
  /\ fails = 0
  /\ nextNative = 1
  /\ dirty = FALSE
  /\ clean = TRUE
  /\ steady = FALSE
  /\ tdFetched = <<>>
  /\ seenTodoistIds = {}
  /\ skipped = <<>>
  /\ winner = "unknown"
  /\ ret = NoCall

(* no pass is looked at scope by scope, no daemon runs, no function is    *)
(* called on its own                                                       *)
Still ==
  /\ args = NoCall
  /\ scopeOutcome = <<>>
  /\ scopePhase = "none"
  /\ scopeIdx = 0
  /\ reconciled = {}
  /\ managed = <<>>
  /\ isShuttingDown = FALSE
  /\ storeClosed = FALSE

Init ==
  /\ source \in Sources
  /\ mapping \in Mappings
  /\ tzWest \in (IF source = "google" THEN BOOLEAN ELSE {FALSE})
  /\ clock = 0
  /\ filterActive = FALSE
  /\ triple = NoTriple
  /\ Fresh
  /\ Still

----------------------------------------------------------------------------
(* The users of the two platforms, and the operator of the daemon *)

passVars == <<pc, queue, sweepOutcome, fetchOutcome, rowsBefore, prevFetched,
              fetched, storedAtFetch, result, calls, passes, fails, clean,
              steady>>

UserStep ==
  /\ pc = "idle"
  /\ envSteps < MaxEnv
  /\ envSteps' = envSteps + 1
  /\ dirty' = TRUE
  /\ UNCHANGED <<source, tzWest, imported, rows>>
  /\ UNCHANGED passVars
  /\ UNCHANGED otherVars

AddRemote ==
  /\ UserStep
  /\ nextNative <= MaxItems
  /\ \E done \in BOOLEAN,
        due \in (IF source = "shopping" THEN {Null} ELSE {Null} \cup Dates),
        stamp \in (IF source = "google" THEN {clock + 1}
                   ELSE {Null, clock + 1}),
        parent \in (IF source = "google"
                    THEN {Null} \cup {m \in NativeIds : remote[m].present
                                         /\ remote[m].parent = Null}
                    ELSE {Null}) :
       remote' = [remote EXCEPT ![nextNative] =
                    [present |-> TRUE, title |-> "a", notes |-> "",
                     done |-> done, due |-> due, upd |-> stamp,
                     parent |-> parent]]
  /\ nextNative' = nextNative + 1
  /\ clock' = clock + 1
  /\ UNCHANGED <<mapping, todoist>>

Other(x, S) == CHOOSE y \in S : y # x

EditRemote ==
  /\ UserStep
  /\ \E n \in NativeIds :
       /\ remote[n].present
       /\ \E field \in {"title", "notes", "done", "due"} :
            /\ field = "notes" => source = "google"
            /\ field = "due" => source # "shopping"
            /\ remote' = [remote EXCEPT ![n] =
                 [@ EXCEPT
                    !.title = IF field = "title" THEN Other(@, Titles) ELSE @,
                    !.notes = IF field = "notes"
                              THEN Other(@, {"", "n"}) ELSE @,
                    !.done = IF field = "done" THEN ~@ ELSE @,
                    !.due = IF field = "due"
                            THEN Other(@, {Null} \cup Dates) ELSE @,
                    !.upd = IF @ # Null THEN clock + 1 ELSE @]]
  /\ clock' = clock + 1
  /\ UNCHANGED <<mapping, todoist, nextNative>>

DeleteRemote ==
  /\ UserStep
  /\ \E n \in NativeIds :
       /\ remote[n].present
       /\ remote' = [remote EXCEPT ![n] = NoItem]
  /\ UNCHANGED <<mapping, todoist, nextNative, clock>>

(* the Todoist user deletes a mirrored task *)
DeleteMirrored ==
  /\ UserStep
  /\ \E t \in ProjectTaskIds(todoist) : todoist' = TdDelete(todoist, t)
  /\ UNCHANGED <<mapping, remote, nextNative, clock>>

(* the daemon is restarted with other tags configured for the mapping, or *)
(* with delete_after_sync switched                                        *)
Reconfigure ==
  /\ UserStep
  /\ \/ \E tags \in TagChoices \ {mapping.tags} :
          mapping' = [mapping EXCEPT !.tags = tags]
     \/ mapping' = [mapping EXCEPT !.delete_after_sync = ~@]
  /\ UNCHANGED <<remote, todoist, nextNative, clock>>

----------------------------------------------------------------------------
(* A pass of the engine: sync() *)

RECURSIVE SetToSeq(_)
SetToSeq(S) ==
  IF S = {} THEN <<>>
  ELSE LET m == CHOOSE x \in S : \A y \in S : x <= y
       IN <<m>> \o SetToSeq(S \ {m})

Work(kind, ids) == [i \in 1..Len(ids) |-> [kind |-> kind, n |-> ids[i]]]

includeCompleted ==
  IF source = "google" THEN shouldIncludeCompleted
  ELSE mapping.include_completed

(* what the fetch returns: getTasks(list, includeCompleted), the           *)
(* reminders filtered on status ON, getShoppingItems(includeCompleted)     *)
Fetched ==
  {n \in NativeIds : remote[n].present /\ (includeCompleted \/ ~remote[n].done)}

(* parents before children (Google); Alexa items have no parent *)
ProcessingOrder(ids) ==
  SetToSeq({n \in ids : remote[n].parent = Null})
    \o SetToSeq({n \in ids : remote[n].parent # Null})

SweepOutcomes ==
  IF source = "shopping" THEN {"ok", "empty"} ELSE {"ok", "empty", "skipped"}

FetchOutcomes ==
  IF source = "google" THEN {"ok", "listFailed", "passFailed"}
  ELSE {"ok", "passFailed"}

(* cleanupStaleCache: getTaskIdsForProjects swallows a failed fetch and    *)
(* returns the ids it has; a failed resolveProjectId skips the sweep       *)
cleanupStaleCache(sweep) ==
  IF sweep = "skipped" THEN rows
  ELSE cleanupStaleTasks(rows, IF sweep = "ok" THEN ProjectTaskIds(todoist)
                               ELSE {})

cleanupStaleCacheRethrows(sweep) == sweep = "skipped"

(* the try/catch around the whole of cleanupStaleCache: whatever fails in  *)
(* it is logged and nothing is thrown into sync()                          *)
cleanupStaleCacheThrows(sweep) == FALSE

StartPass ==
  /\ pc = "idle"
  /\ passes < MaxPasses
  /\ \E sweep \in SweepOutcomes, fetch \in FetchOutcomes :
       LET nf == (IF sweep = "ok" THEN 0 ELSE 1)
                 + (IF fetch = "ok" THEN 0 ELSE 1)
           swept == cleanupStaleCache(sweep)
           stored == {n \in NativeIds : swept[n].present}
       IN /\ fails + nf <= MaxFails
          /\ fails' = fails + nf
          /\ clean' = (nf = 0)
          /\ sweepOutcome' = sweep
          /\ fetchOutcome' = fetch
          /\ rowsBefore' = rows
          /\ prevFetched' = fetchedIds
          /\ fetched' = [n \in NativeIds |->
                           IF fetch = "ok" /\ n \in Fetched THEN remote[n]
                           ELSE NoItem]
          /\ rows' = swept
          /\ storedAtFetch' = swept
          /\ calls' = <<>>
          /\ IF fetch = "passFailed" \/ cleanupStaleCacheThrows(sweep)
             THEN /\ result' = [createEmptySyncResult EXCEPT
                                  !.success = FALSE, !.errors = 1]
                  /\ pc' = "idle"
                  /\ passes' = passes + 1
                  /\ queue' = <<>>
             ELSE /\ result' = [createEmptySyncResult EXCEPT
                                  !.errors = IF fetch = "ok" THEN 0 ELSE 1]
                  /\ pc' = "run"
                  /\ passes' = passes
                  /\ queue' = IF fetch = "ok"
                              THEN Work("item", ProcessingOrder(Fetched))
                                   \o Work("del", SetToSeq(stored \ Fetched))
                              ELSE <<>>
  /\ steady' = (passes >= 1 /\ ~dirty /\ clean)
  /\ dirty' = FALSE
  /\ UNCHANGED <<source, mapping, tzWest, imported, remote, todoist, clock,
                 envSteps, nextNative>>
  /\ UNCHANGED otherVars

(* one iteration of a loop of the pass, with the calls it makes *)
Step(c) ==
  /\ fails + c.nf <= MaxFails
  /\ fails' = fails + c.nf
  /\ todoist' = c.td
  /\ rows' = c.rs
  /\ remote' = c.rem
  /\ calls' = c.calls
  /\ result' = c.res
  /\ clean' = (clean /\ \A i \in DOMAIN c.calls : c.calls[i].ok)
  /\ queue' = Tail(queue)
  /\ UNCHANGED <<source, mapping, tzWest, imported, clock, pc, sweepOutcome,
                 fetchOutcome, rowsBefore, prevFetched, fetched,
                 storedAtFetch, passes, envSteps, nextNative, dirty, steady>>
  /\ UNCHANGED otherVars

Running(kind) == pc = "run" /\ queue # <<>> /\ Head(queue).kind = kind

GoogleSyncTask ==
  /\ Running("item")
  /\ source = "google"
  /\ \E F \in SUBSET Slots : Step(syncTask(Head(queue).n, F))

AlexaSyncReminder ==
  /\ Running("item")
  /\ source = "reminders"
  /\ \E F \in SUBSET Slots : Step(syncReminder(Head(queue).n, F))

AlexaSyncShoppingItem ==
  /\ Running("item")
  /\ source = "shopping"
  /\ \E F \in SUBSET Slots : Step(syncShoppingItem(Head(queue).n, F))

DeleteStored ==
  /\ Running("del")
  /\ \E F \in SUBSET Slots : Step(deleteStored(Head(queue).n, F))

EndPass ==
  /\ pc = "run"
  /\ queue = <<>>
  /\ pc' = "idle"
  /\ passes' = passes + 1
  /\ imported' = (imported \/ (source = "google" /\ mapping.include_completed))
  /\ UNCHANGED <<source, mapping, tzWest, remote, todoist, rows, clock, queue,
                 sweepOutcome, fetchOutcome, rowsBefore, prevFetched,
                 fetched, storedAtFetch, result, calls, envSteps, fails,
                 nextNative, dirty, clean, steady>>
  /\ UNCHANGED otherVars

Next ==
  \/ AddRemote
  \/ EditRemote
  \/ DeleteRemote
  \/ DeleteMirrored
  \/ Reconfigure
  \/ StartPass
  \/ GoogleSyncTask
  \/ AlexaSyncReminder
  \/ AlexaSyncShoppingItem
  \/ DeleteStored
  \/ EndPass

Spec == Init /\ [][Next]_vars

----------------------------------------------------------------------------
(* sources/microsoft: the mapper.  A Microsoft item carries its title, its *)
(* status, its lastModifiedDateTime and the user who created it; a row     *)
(* carries the two modification stamps and the content hash.  Body and     *)
(* due date are content fields treated like the title and are left out:    *)
(* every task is one without a due date.                                   *)

MaxClock == 2

Owners == {"me", "other", "none"}

Statuses == {"notStarted", "completed"}

(* md5 over the JSON text of the fields: equal exactly when they are *)
generateContentHash(title, status) == <<title, status>>

todoistStatus(todoistTask) ==
  IF todoistTask.done THEN "completed" ELSE "notStarted"

mapMicrosoftToTodoistCreate(msTask, tags) ==
  NewTask(Null, msTask.title, "", Null, tags, Null)

mapMicrosoftToTodoistUpdate(msTask, stored, tags) ==
  [NoUpdate EXCEPT !.hasContent = msTask.title # stored.title,
                   !.content = msTask.title,
                   !.hasLabels = Len(tags) > 0, !.labels = tags]

hasMicrosoftTaskChanged(msTask, stored) ==
  IF msTask.mod # Null /\ stored.msMod # Null
  THEN msTask.mod > stored.msMod
  ELSE generateContentHash(msTask.title, msTask.status) # stored.hash

hasTodoistTaskChanged(todoistTask, stored) ==
  generateContentHash(todoistTask.content, todoistStatus(todoistTask))
    # stored.hash

resolveConflictTieToRemote(msTask, todoistTask, stored) ==
  LET msChanged == hasMicrosoftTaskChanged(msTask, stored)
      todoistChanged == hasTodoistTaskChanged(todoistTask, stored)
  IN IF ~msChanged /\ ~todoistChanged THEN "none"
     ELSE IF msChanged /\ ~todoistChanged THEN "microsoft"
     ELSE IF ~msChanged /\ todoistChanged THEN "todoist"
     ELSE IF msTask.mod # Null /\ stored.tdMod # Null
          THEN IF msTask.mod >= stored.tdMod THEN "microsoft" ELSE "todoist"
     ELSE "todoist"

resolveConflict(msTask, todoistTask, stored) ==
  LET msChanged == hasMicrosoftTaskChanged(msTask, stored)
      todoistChanged == hasTodoistTaskChanged(todoistTask, stored)
  IN IF ~msChanged /\ ~todoistChanged THEN "none"
     ELSE IF msChanged /\ ~todoistChanged THEN "microsoft"
     ELSE IF ~msChanged /\ todoistChanged THEN "todoist"
     ELSE IF msTask.mod # Null /\ stored.tdMod # Null
          THEN IF msTask.mod > stored.tdMod THEN "microsoft" ELSE "todoist"
     ELSE "todoist"

hasCompletionStatusChanged(msTask, todoistTask) ==
  (msTask.status = "completed") # todoistTask.done

createStoredRecordFromMicrosoft(msTask, todoistId, tags, now) ==
  [present |-> TRUE, tid |-> todoistId, title |-> msTask.title,
   status |-> msTask.status, msMod |-> msTask.mod, tdMod |-> now,
   tags |-> [isNull |-> FALSE, json |-> tags],
   hash |-> generateContentHash(msTask.title, msTask.status)]

createStoredRecordFromTodoist(todoistTask, todoistId, tags, now) ==
  [present |-> TRUE, tid |-> todoistId, title |-> todoistTask.content,
   status |-> todoistStatus(todoistTask), msMod |-> now, tdMod |-> now,
   tags |-> [isNull |-> FALSE, json |-> tags],
   hash |-> generateContentHash(todoistTask.content,
                                todoistStatus(todoistTask))]

----------------------------------------------------------------------------
(* Microsoft rows of the snapshot store, and the MicrosoftTodoClient *)

createMicrosoftItem(rs, mid, row) == [rs EXCEPT ![mid] = row]

deleteMicrosoftItem(rs, mid) == [rs EXCEPT ![mid] = NoRow]

createEmptyBidirectionalSyncResult ==
  [success |-> TRUE, created |-> 0, updated |-> 0, deleted |-> 0,
   completed |-> 0, deletedFromSource |-> 0, tagsUpdated |-> 0, errors |-> 0,
   createdInSource |-> 0, updatedInSource |-> 0, completedInSource |-> 0]

MsCtx ==
  [td |-> todoist, rs |-> rows, rem |-> remote, calls |-> calls,
   res |-> result, nf |-> 0, ok |-> TRUE, seen |-> seenTodoistIds,
   next |-> nextNative, thrown |-> FALSE]

(* completeTask, reopenTask, updateTask of the Microsoft client: a PATCH,  *)
(* which the service stamps with the time of the write                     *)
MsCall(c, F, slot, op, mid, title) ==
  LET ok == ~Fail(F, slot) /\ mid \in NativeIds /\ c.rem[mid].present
      item == c.rem[mid]
      patched ==
        IF op = "msComplete"
        THEN [item EXCEPT !.status = "completed", !.mod = clock]
        ELSE IF op = "msReopen"
        THEN [item EXCEPT !.status = "notStarted", !.mod = clock]
        ELSE [item EXCEPT !.title = title, !.mod = clock]
  IN [c EXCEPT !.rem = IF ok THEN [@ EXCEPT ![mid] = patched] ELSE @,
               !.calls = Append(@, Call(op, mid, Null, ok, NoUpdate)),
               !.nf = IF Fail(F, slot) THEN @ + 1 ELSE @, !.ok = ok]

(* createTask of the Microsoft client: the service assigns the next id *)
MsCreate(c, F, slot, tid, title) ==
  LET ok == ~Fail(F, slot)
      mid == c.next
      item == [present |-> TRUE, title |-> title, status |-> "notStarted",
               mod |-> clock, owner |-> "me"]
  IN [c EXCEPT !.rem = IF ok /\ mid \in NativeIds
                       THEN [@ EXCEPT ![mid] = item] ELSE @,
               !.next = IF ok THEN @ + 1 ELSE @,
               !.calls = Append(@, Call("msCreate", IF ok THEN mid ELSE Null,
                                        tid, ok, NoUpdate)),
               !.nf = IF Fail(F, slot) THEN @ + 1 ELSE @, !.ok = ok]

----------------------------------------------------------------------------
(* MicrosoftTodoSource *)

filterByAssignment(ids) ==
  IF ~filterActive THEN ids
  ELSE {n \in ids : remote[n].owner = "none" \/ remote[n].owner = "me"}

createInTodoist(c0, n, msItem, F) ==
  LET tid == Len(c0.td) + 1
      done == msItem.status = "completed"
      c1 == TdCreate(c0, F, 1, n, mapMicrosoftToTodoistCreate(msItem, Tags))
      c2 == IF done THEN TdCall(c1, F, 3, "complete", n, tid, NoUpdate)
            ELSE c1
      c3 == IF done THEN Count(c2, "completed") ELSE c2
      c4 == [c3 EXCEPT !.rs = createMicrosoftItem(@, n,
               createStoredRecordFromMicrosoft(msItem, tid, Tags, clock))]
  IN IF ~c1.ok THEN PushError(c1)
     ELSE IF ~c2.ok THEN PushError(c2)
     ELSE Count(c4, "created")

createInMicrosoft(c0, tid, todoistTask, F) ==
  LET mid == c0.next
      c1 == MsCreate(c0, F, 1, tid, todoistTask.content)
      c2 == IF todoistTask.done THEN MsCall(c1, F, 3, "msComplete", mid, "")
            ELSE c1
      c3 == IF todoistTask.done THEN Count(c2, "completedInSource") ELSE c2
      c4 == [c3 EXCEPT !.rs = IF mid \in NativeIds
               THEN createMicrosoftItem(@, mid,
                      createStoredRecordFromTodoist(todoistTask, tid, Tags,
                                                    clock))
               ELSE @]
  IN IF ~c1.ok THEN PushError(c1)
     ELSE IF ~c2.ok THEN PushError(c2)
     ELSE Count(c4, "createdInSource")

syncCompletionStatusRowOnly(c0, n, msItem, tid, todoistTask, stored, F) ==
  [c0 EXCEPT !.rs[n] = [@ EXCEPT !.status = msItem.status,
                                 !.msMod = msItem.mod, !.tdMod = clock]]

(* no try/catch here: a failed call throws out of syncList *)
syncCompletionStatus(c0, n, msItem, tid, todoistTask, stored, F) ==
  LET msModified == IF msItem.mod # Null THEN msItem.mod ELSE 0
      todoistModified == IF stored.tdMod # Null THEN stored.tdMod ELSE 0
      microsoftCompleted == msItem.status = "completed"
      todoistCompleted == todoistTask.done
      c1 == IF msModified >= todoistModified
            THEN IF microsoftCompleted
                 THEN Count(TdCall(c0, F, 3, "complete", n, tid, NoUpdate),
                            "completed")
                 ELSE Count(TdCall(c0, F, 3, "reopen", n, tid, NoUpdate),
                            "updated")
            ELSE IF todoistCompleted
                 THEN Count(MsCall(c0, F, 3, "msComplete", n, ""),
                            "completedInSource")
                 ELSE Count(MsCall(c0, F, 3, "msReopen", n, ""),
                            "updatedInSource")
      c2 == [c1 EXCEPT !.rs[n] =
               [@ EXCEPT !.status = IF microsoftCompleted THEN "completed"
                                    ELSE "notStarted",
                         !.msMod = msItem.mod, !.tdMod = clock]]
  IN IF ~c1.ok THEN [c1 EXCEPT !.res = c0.res, !.thrown = TRUE]
     ELSE c2

updateTodoistFromMicrosoft(c0, n, msItem, tid, stored, F) ==
  LET updates == mapMicrosoftToTodoistUpdate(msItem, stored, Tags)
      c1 == IF ~IsEmptyUpdate(updates)
            THEN TdCall(c0, F, 2, "update", n, tid, updates)
            ELSE c0
      c2 == IF ~IsEmptyUpdate(updates) THEN Count(c1, "updated") ELSE c1
      c3 == [c2 EXCEPT !.rs[n] =
               [@ EXCEPT !.title = msItem.title, !.msMod = msItem.mod,
                         !.tdMod = clock,
                         !.hash = generateContentHash(msItem.title,
                                                      msItem.status)]]
  IN IF ~c1.ok THEN PushError(c1) ELSE c3

(* todoistTask.due?.date (undefined) !== stored.due_date (null): for a     *)
(* task without a due date the update always carries dueDateTime, so the   *)
(* call is always made                                                     *)
updateMicrosoftFromTodoist(c0, n, msItem, todoistTask, stored, F) ==
  LET c1 == MsCall(c0, F, 2, "msUpdate", n,
                   IF todoistTask.content # stored.title
                   THEN todoistTask.content ELSE msItem.title)
      c2 == Count(c1, "updatedInSource")
      c3 == [c2 EXCEPT !.rs[n] =
               [@ EXCEPT !.title = todoistTask.content, !.msMod = clock,
                         !.tdMod = clock,
                         !.hash = generateContentHash(todoistTask.content,
                                     todoistStatus(todoistTask))]]
  IN IF ~c1.ok THEN PushError(c1) ELSE c3

syncExistingItem(c0, n, msItem, tid, todoistTask, stored, F) ==
  LET winner0 == resolveConflict(msItem, todoistTask, stored)
  IN IF hasCompletionStatusChanged(msItem, todoistTask)
     THEN syncCompletionStatus(c0, n, msItem, tid, todoistTask, stored, F)
     ELSE IF winner0 = "microsoft"
     THEN updateTodoistFromMicrosoft(c0, n, msItem, tid, stored, F)
     ELSE IF winner0 = "todoist"
     THEN updateMicrosoftFromTodoist(c0, n, msItem, todoistTask, stored, F)
     ELSE c0

handleTodoistDeletionKeepId(c0, n, msItem, stored, F) ==
  Count(TdCreate(c0, F, 1, n, mapMicrosoftToTodoistCreate(msItem, Tags)),
        "created")

handleTodoistDeletion(c0, n, msItem, stored, F) ==
  LET tid == Len(c0.td) + 1
      done == msItem.status = "completed"
      c1 == TdCreate(c0, F, 1, n, mapMicrosoftToTodoistCreate(msItem, Tags))
      c2 == IF done THEN TdCall(c1, F, 3, "complete", n, tid, NoUpdate)
            ELSE c1
      c3 == [c2 EXCEPT !.rs[n] = [@ EXCEPT !.tid = tid, !.tdMod = clock]]
  IN IF ~c1.ok THEN PushError(c1)
     ELSE IF ~c2.ok THEN PushError(c2)
     ELSE Count(c3, "created")

(* syncList, phase 1: the body of the loop over the Microsoft items *)
syncListItem(n, F) ==
  LET msItem == fetched[n]
      stored == storedAtFetch[n]
      c1 == [MsCtx EXCEPT !.seen = @ \cup {stored.tid}]
  IN IF ~stored.present THEN createInTodoist(MsCtx, n, msItem, F)
     ELSE IF stored.tid = Null THEN MsCtx
     ELSE IF stored.tid \in ProjectTaskIds(tdFetched)
     THEN syncExistingItem(c1, n, msItem, stored.tid, tdFetched[stored.tid],
                           stored, F)
     ELSE handleTodoistDeletion(c1, n, msItem, stored, F)

(* syncList, phase 2: the body of the loop over the Todoist tasks *)
syncListTodoistTask(tid, F) ==
  IF tid \in seenTodoistIds THEN MsCtx
  ELSE IF \E n \in NativeIds :
            storedAtFetch[n].present /\ storedAtFetch[n].tid = tid
  THEN MsCtx
  ELSE createInMicrosoft(MsCtx, tid, tdFetched[tid], F)

syncListStoredAlwaysRemoves(n, F) ==
  [MsCtx EXCEPT !.rs = deleteMicrosoftItem(@, n)]

(* syncList, phase 3: the body of the loop over the stored rows *)
syncListStored(n, F) ==
  LET stored == storedAtFetch[n]
      msExists == fetched[n].present
      todoistExists == stored.tid # Null
                         /\ stored.tid \in ProjectTaskIds(tdFetched)
      c1 == TdCall(MsCtx, F, 1, "delete", n, stored.tid, NoUpdate)
  IN IF ~msExists /\ ~todoistExists
     THEN [MsCtx EXCEPT !.rs = deleteMicrosoftItem(@, n)]
     ELSE IF ~msExists /\ todoistExists
     THEN IF c1.ok
          THEN Count([c1 EXCEPT !.rs = deleteMicrosoftItem(@, n)], "deleted")
          ELSE c1
     ELSE MsCtx

----------------------------------------------------------------------------
(* The Microsoft engine: initial state, users, passes *)

MsMappings ==
  [include_completed : BOOLEAN, delete_after_sync : {FALSE},
   tags : {<<>>, <<1>>}]

InitMs ==
  /\ source = "microsoft"
  /\ mapping \in MsMappings
  /\ tzWest = FALSE
  /\ clock = 1
  /\ filterActive \in BOOLEAN
  /\ triple = NoTriple
  /\ Fresh
  /\ Still

oneWayVars == <<tzWest, imported, sweepOutcome, rowsBefore, prevFetched,
                dirty, clean, steady, triple, winner, scopeVars, daemonVars,
                callVars>>

MsUserStep ==
  /\ pc = "idle"
  /\ envSteps < MaxEnv
  /\ envSteps' = envSteps + 1
  /\ UNCHANGED <<source, mapping, rows, pc, queue, fetchOutcome, fetched,
                 storedAtFetch, result, calls, passes, fails, tdFetched,
                 seenTodoistIds, skipped>>
  /\ UNCHANGED oneWayVars

(* Todoist tasks no row knows: the next pass creates a Microsoft item for  *)
(* each, so ids are kept for them                                          *)
UnknownTasks ==
  {t \in ProjectTaskIds(todoist) :
     \A n \in NativeIds : ~(rows[n].present /\ rows[n].tid = t)}

RoomForItem == (nextNative - 1) + Cardinality(UnknownTasks) < MaxItems

MsAddItem ==
  /\ MsUserStep
  /\ RoomForItem
  /\ \E owner \in Owners, status \in Statuses :
       remote' = [remote EXCEPT ![nextNative] =
                    [present |-> TRUE, title |-> "a", status |-> status,
                     mod |-> clock, owner |-> owner]]
  /\ nextNative' = nextNative + 1
  /\ UNCHANGED <<todoist, clock, filterActive>>

MsEditItem ==
  /\ MsUserStep
  /\ \E n \in NativeIds :
       /\ remote[n].present
       /\ \E field \in {"title", "status"} :
            remote' = [remote EXCEPT ![n] =
              [@ EXCEPT
                 !.title = IF field = "title" THEN Other(@, Titles) ELSE @,
                 !.status = IF field = "status" THEN Other(@, Statuses)
                            ELSE @,
                 !.mod = clock]]
  /\ UNCHANGED <<todoist, nextNative, clock, filterActive>>

MsDeleteItem ==
  /\ MsUserStep
  /\ \E n \in NativeIds :
       /\ remote[n].present
       /\ remote' = [remote EXCEPT ![n] = NoItem]
  /\ UNCHANGED <<todoist, nextNative, clock, filterActive>>

TodoistAddTask ==
  /\ MsUserStep
  /\ RoomForItem
  /\ todoist' = Append(todoist, NewTask(Null, "a", "", Null, <<>>, Null))
  /\ UNCHANGED <<remote, nextNative, clock, filterActive>>

TodoistEditTask ==
  /\ MsUserStep
  /\ \E t \in ProjectTaskIds(todoist), field \in {"content", "done"} :
       todoist' = [todoist EXCEPT ![t] =
         [@ EXCEPT
            !.content = IF field = "content" THEN Other(@, Titles) ELSE @,
            !.done = IF field = "done" THEN ~@ ELSE @]]
  /\ UNCHANGED <<remote, nextNative, clock, filterActive>>

TodoistDeleteTask ==
  /\ MsUserStep
  /\ \E t \in ProjectTaskIds(todoist) : todoist' = TdDelete(todoist, t)
  /\ UNCHANGED <<remote, nextNative, clock, filterActive>>

(* create(): the daemon is restarted with exclude_others_assignments       *)
(* changed, or getCurrentUser succeeds where it failed before (or fails    *)
(* where it succeeded)                                                     *)
Restart ==
  /\ MsUserStep
  /\ filterActive' = ~filterActive
  /\ UNCHANGED <<remote, todoist, nextNative, clock>>

(* time passes *)
Tick ==
  /\ pc = "idle"
  /\ clock < MaxClock
  /\ clock' = clock + 1
  /\ UNCHANGED <<source, mapping, remote, todoist, rows, pc, queue,
                 fetchOutcome, fetched, storedAtFetch, result, calls, passes,
                 envSteps, fails, nextNative, filterActive, tdFetched,
                 seenTodoistIds, skipped>>
  /\ UNCHANGED oneWayVars

(* msClient.getTasks(listId, include_completed) *)
MsFetched ==
  {n \in NativeIds : remote[n].present
     /\ (mapping.include_completed \/ remote[n].status # "completed")}

(* the orders in which the service may list the items of a set *)
Orders(S) ==
  {q \in [1..Cardinality(S) -> S] :
     \A i, j \in 1..Cardinality(S) : q[i] = q[j] => i = j}

(* syncBidirectional / syncList up to the three loops: a failed resolve or *)
(* fetch is caught per list and ends the list's pass; the items come in    *)
(* the order the service lists them                                        *)
MsStartPass ==
  /\ pc = "idle"
  /\ passes < MaxPasses
  /\ \E fetch \in {"ok", "failed"},
        order \in Orders(filterByAssignment(MsFetched)) :
       LET nf == IF fetch = "ok" THEN 0 ELSE 1
           ids == filterByAssignment(MsFetched)
           stored == {n \in NativeIds : rows[n].present}
       IN /\ fails + nf <= MaxFails
          /\ fails' = fails + nf
          /\ fetchOutcome' = fetch
          /\ calls' = <<>>
          /\ skipped' = <<>>
          /\ seenTodoistIds' = {}
          /\ storedAtFetch' = rows
          /\ IF fetch = "ok"
             THEN /\ fetched' = [n \in NativeIds |->
                                   IF n \in ids THEN remote[n] ELSE NoItem]
                  /\ tdFetched' = todoist
                  /\ result' = createEmptyBidirectionalSyncResult
                  /\ pc' = "run"
                  /\ passes' = passes
                  /\ queue' = Work("ms", order)
                                \o Work("td", SetToSeq(ProjectTaskIds(todoist)))
                                \o Work("stored", SetToSeq(stored))
             ELSE /\ fetched' = [n \in NativeIds |-> NoItem]
                  /\ tdFetched' = <<>>
                  /\ result' = [createEmptyBidirectionalSyncResult EXCEPT
                                  !.success = FALSE, !.errors = 1]
                  /\ pc' = "idle"
                  /\ passes' = passes + 1
                  /\ queue' = <<>>
  /\ UNCHANGED <<source, mapping, remote, todoist, rows, clock, envSteps,
                 nextNative, filterActive>>
  /\ UNCHANGED oneWayVars

(* one iteration of a loop of syncList; an exception it lets through ends  *)
(* syncList: syncBidirectional records it in place of the list's result    *)
(* and nothing more of the list is done                                    *)
MsStep(c) ==
  /\ fails + c.nf <= MaxFails
  /\ c.next <= MaxItems + 1
  /\ fails' = fails + c.nf
  /\ todoist' = c.td
  /\ rows' = c.rs
  /\ remote' = c.rem
  /\ calls' = c.calls
  /\ seenTodoistIds' = c.seen
  /\ nextNative' = c.next
  /\ result' = IF c.thrown
               THEN [createEmptyBidirectionalSyncResult EXCEPT !.errors = 1]
               ELSE c.res
  /\ queue' = IF c.thrown THEN <<>> ELSE Tail(queue)
  /\ skipped' = IF c.thrown THEN Tail(queue) ELSE skipped
  /\ UNCHANGED <<source, mapping, clock, pc, fetchOutcome, fetched,
                 storedAtFetch, passes, envSteps, filterActive, tdFetched>>
  /\ UNCHANGED oneWayVars

MsSyncItem ==
  /\ Running("ms")
  /\ \E F \in SUBSET Slots : MsStep(syncListItem(Head(queue).n, F))

MsSyncTodoistTask ==
  /\ Running("td")
  /\ \E F \in SUBSET Slots : MsStep(syncListTodoistTask(Head(queue).n, F))

MsSyncStored ==
  /\ Running("stored")
  /\ \E F \in SUBSET Slots : MsStep(syncListStored(Head(queue).n, F))

MsEndPass ==
  /\ pc = "run"
  /\ queue = <<>>
  /\ pc' = "idle"
  /\ passes' = passes + 1
  /\ result' = [result EXCEPT !.success = (result.errors = 0)]
  /\ UNCHANGED <<source, mapping, remote, todoist, rows, clock, queue,
                 fetchOutcome, fetched, storedAtFetch, calls, envSteps, fails,
                 nextNative, filterActive, tdFetched, seenTodoistIds, skipped>>
  /\ UNCHANGED oneWayVars

NextMs ==
  \/ MsAddItem
  \/ MsEditItem
  \/ MsDeleteItem
  \/ TodoistAddTask
  \/ TodoistEditTask
  \/ TodoistDeleteTask
  \/ Restart
  \/ Tick
  \/ MsStartPass
  \/ MsSyncItem
  \/ MsSyncTodoistTask
  \/ MsSyncStored
  \/ MsEndPass

SpecMs == InitMs /\ [][NextMs]_vars

----------------------------------------------------------------------------
(* resolveConflict on its own: every triple of the bounded domains *)

Stamps == {Null, 1, 2}

Triples ==
  [present : {TRUE},
   ms : [title : Titles, status : Statuses, mod : Stamps],
   td : [content : Titles, done : BOOLEAN],
   stored : [msMod : Stamps, tdMod : Stamps,
             hash : {generateContentHash(t, st) : t \in Titles,
                                                  st \in Statuses}]]

InitResolve ==
  /\ source = "microsoft"
  /\ mapping = [include_completed |-> FALSE, delete_after_sync |-> FALSE,
                tags |-> <<>>]
  /\ tzWest = FALSE
  /\ clock = 1
  /\ filterActive = FALSE
  /\ triple \in Triples
  /\ Fresh
  /\ Still

Resolve ==
  /\ triple.present
  /\ winner = "unknown"
  /\ winner' = resolveConflict(triple.ms, triple.td, triple.stored)
  /\ UNCHANGED <<source, mapping, tzWest, imported, remote, todoist, rows,
                 clock, pc, queue, sweepOutcome, fetchOutcome, rowsBefore,
                 prevFetched, fetched, storedAtFetch, result, calls, passes,
                 envSteps, fails, nextNative, dirty, clean, steady,
                 filterActive, tdFetched, seenTodoistIds, skipped, triple,
                 scopeVars, daemonVars, callVars>>

SpecResolve == InitResolve /\ [][Resolve]_vars

----------------------------------------------------------------------------
(* Reading a pass: the calls it issued, the rows and items it worked on *)

(* a pass that fetched its items has run to its end, and no user has      *)
(* acted or changed the configuration since                                *)
PassEnded == pc = "idle" /\ passes >= 1 /\ fetchOutcome = "ok" /\ ~dirty

CallsAbout(n) == {i \in DOMAIN calls : calls[i].nid = n}

(* fetched items that had no snapshot row, and those of them whose calls   *)
(* all succeeded                                                           *)
Untracked == {n \in fetchedIds : ~storedAtFetch[n].present}

CreatedOk == {n \in Untracked : \A i \in CallsAbout(n) : calls[i].ok}

RowMatchesCreate(n) ==
  /\ rows[n].present
  /\ Cardinality({i \in CallsAbout(n) : calls[i].op = "create"}) = 1
  /\ \E i \in CallsAbout(n) :
       calls[i].op = "create" /\ calls[i].ok /\ calls[i].tid = rows[n].tid

(* rows the pass read whose item the fetch did not return *)
Unseen == {n \in NativeIds : storedAtFetch[n].present /\ n \notin fetchedIds}

(* items tracked when the pass began, fetched by the pass before, and      *)
(* absent from this pass's fetch                                           *)
Vanished ==
  {n \in NativeIds : rowsBefore[n].present /\ n \in prevFetched
                       /\ n \notin fetchedIds}

DeleteIssued(n, tid) ==
  \E i \in CallsAbout(n) : calls[i].op = "delete" /\ calls[i].tid = tid

(* the step of the pass that processes fetched item n *)
ItemStep(n) == Running("item") /\ Head(queue).n = n

NewCalls == {i \in DOMAIN calls' : i > Len(calls)}

TagSet(tags) == {tags[i] : i \in DOMAIN tags}

SameFields(item, row) ==
  /\ item.title = row.title
  /\ item.notes = row.notes
  /\ item.due = row.due

(* the snapshot equals the fetched item, only the applied tags differ as   *)
(* a set from the configured ones                                          *)
TagOnly(n) ==
  /\ storedAtFetch[n].present
  /\ SameFields(fetched[n], storedAtFetch[n])
  /\ fetched[n].done = storedAtFetch[n].done
  /\ fetched[n].upd = storedAtFetch[n].upd
  /\ TagSet(parseStoredTags(storedAtFetch[n].tags)) # TagSet(Tags)

LabelUpdates == {i \in NewCalls : calls'[i].op = "update" /\ calls'[i].labels}

(* the snapshot is open, the fetched item is completed, nothing else       *)
(* differs                                                                 *)
StatusOnly(n) ==
  /\ storedAtFetch[n].present
  /\ SameFields(fetched[n], storedAtFetch[n])
  /\ ~storedAtFetch[n].done
  /\ fetched[n].done
  /\ tagsEqual(parseStoredTags(storedAtFetch[n].tags), Tags)

----------------------------------------------------------------------------
(* C1: one-way reconciliation is idempotent: a pass that follows a pass    *)
(* with no change in between (here: no user action at all, and no failed   *)
(* call in either pass) reports created = updated = deleted = 0, whatever  *)
(* the mapping's include_completed, delete_after_sync and tags.            *)
(* The Google engine breaks it after the one-time import of completed      *)
(* tasks.                                                                  *)
C1_SecondPassIsQuiet ==
  (PassEnded /\ steady /\ clean) =>
    (result.created = 0 /\ result.updated = 0 /\ result.deleted = 0)

C3_DeletionSymmetry ==
  (PassEnded /\ ~mapping.delete_after_sync) =>
    /\ \A n \in Unseen : DeleteIssued(n, storedAtFetch[n].tid) /\ ~rows[n].present
    /\ result.deleted = Cardinality(Unseen)

C3_Deleted ==
  /\ PassEnded
  /\ ~mapping.delete_after_sync
  /\ \E n \in Unseen : n \in prevFetched
  /\ result.deleted >= 1

(* C3 as the specification states it: for every item tracked when the      *)
(* pass began, fetched by the pass before and absent from this fetch       *)
(* (here: deleted on its platform, the sweep's own fetch succeeding).      *)
C3_AsStated ==
  (PassEnded /\ ~mapping.delete_after_sync /\ sweepOutcome = "ok") =>
    \A n \in Vanished :
      ~remote[n].present =>
        /\ DeleteIssued(n, rowsBefore[n].tid)
        /\ ~rows[n].present
        /\ result.deleted >= 1

(* C4: tag-only change.  Processing a fetched item whose snapshot equals   *)
(* it and whose applied tags differ as a set from the configured tags      *)
(* issues exactly one label-update call and no other call to the mirrored  *)
(* service, leaves updated as it is, and adds 1 to tagsUpdated when that   *)
(* call succeeds (nothing when it fails).                                  *)
C4_TagOnlyChange ==
  [][\A n \in NativeIds : (ItemStep(n) /\ TagOnly(n)) =>
       /\ Cardinality(LabelUpdates) = 1
       /\ \A i \in NewCalls : calls'[i].op \in {"update", "srcDelete"}
       /\ result'.updated = result.updated
       /\ result'.tagsUpdated = result.tagsUpdated
            + (IF \A i \in LabelUpdates : calls'[i].ok THEN 1 ELSE 0)]_vars

C4_TagsUpdated ==
  /\ PassEnded
  /\ result.tagsUpdated = 1
  /\ result.updated = 0
  /\ \E n \in fetchedIds :
       /\ TagOnly(n)
       /\ \E i \in CallsAbout(n) : calls[i].labels /\ calls[i].ok

(* C4 as the specification states it: tagsUpdated grows by 1 whether or    *)
(* not the call succeeds.                                                  *)
C4_AsStated ==
  [][\A n \in NativeIds : (ItemStep(n) /\ TagOnly(n)) =>
       /\ Cardinality(LabelUpdates) = 1
       /\ result'.updated = result.updated
       /\ result'.tagsUpdated = result.tagsUpdated + 1]_vars

(* C5: status-only change.  In every one-way source, processing a fetched  *)
(* item that is now completed, whose snapshot is open and otherwise equal  *)
(* (tags as configured, every call succeeding), issues exactly one         *)
(* completion call and no content update, adds 1 to completed and leaves   *)
(* updated as it is.  The Alexa engines break it.                          *)
C5_StatusOnlyChange ==
  [][\A n \in NativeIds :
       (ItemStep(n) /\ StatusOnly(n) /\ \A i \in NewCalls : calls'[i].ok) =>
         /\ Cardinality({i \in NewCalls : calls'[i].op = "complete"}) = 1
         /\ \A i \in NewCalls : ~(calls'[i].op = "update" /\ calls'[i].content)
         /\ result'.completed = result.completed + 1
         /\ result'.updated = result.updated]_vars

----------------------------------------------------------------------------
(* Reading a pass of the Microsoft engine *)

TodoistOps == {"create", "update", "complete", "reopen", "delete"}

MicrosoftOps == {"msComplete", "msReopen"}

OthersItems ==
  {n \in NativeIds : remote[n].present /\ remote[n].owner = "other"}

(* the step about to run handles a matched pair that disagrees on          *)
(* completed / not completed                                               *)
CompletionMismatch(n) ==
  /\ Running("ms")
  /\ Head(queue).n = n
  /\ storedAtFetch[n].present
  /\ storedAtFetch[n].tid \in ProjectTaskIds(tdFetched)
  /\ hasCompletionStatusChanged(fetched[n], tdFetched[storedAtFetch[n].tid])

RemoteStrictlyNewer(n) ==
  /\ fetched[n].mod # Null
  /\ storedAtFetch[n].tdMod # Null
  /\ fetched[n].mod > storedAtFetch[n].tdMod

(* C6: assignment filter exclusion.  While a pass runs with the filter     *)
(* active, no create, update, complete, reopen or delete call to Todoist   *)
(* is about a Microsoft item created by another user.  Phase 3 breaks it   *)
(* for an item that has a row.                                             *)
C6_ExcludedNeverWritten ==
  (pc = "run" /\ filterActive) =>
    \A i \in DOMAIN calls :
      calls[i].op \in TodoistOps => calls[i].nid \notin OthersItems

(* C8: conflict outcome table.  For a pair with equal completion state,    *)
(* resolveConflict answers none when neither side changed, the changed     *)
(* side when exactly one changed, and when both changed microsoft exactly  *)
(* when both stamps are known and the Microsoft stamp is strictly newer    *)
(* than the stored Todoist-write stamp, todoist otherwise.                 *)
C8_OutcomeTable ==
  LET ms == triple.ms
      td == triple.td
      stored == triple.stored
      msChanged == hasMicrosoftTaskChanged(ms, stored)
      tdChanged == hasTodoistTaskChanged(td, stored)
      newer == ms.mod # Null /\ stored.tdMod # Null /\ ms.mod > stored.tdMod
  IN (triple.present /\ winner # "unknown"
        /\ ~hasCompletionStatusChanged(ms, td)) =>
       /\ (~msChanged /\ ~tdChanged) => winner = "none"
       /\ (msChanged /\ ~tdChanged) => winner = "microsoft"
       /\ (~msChanged /\ tdChanged) => winner = "todoist"
       /\ (msChanged /\ tdChanged /\ newer) => winner = "microsoft"
       /\ (msChanged /\ tdChanged /\ ~newer) => winner = "todoist"

(* C8 witness: both sides changed, the two stamps are equal, Todoist won *)
C8_TieGoesToTodoist ==
  /\ triple.present
  /\ winner = "todoist"
  /\ ~hasCompletionStatusChanged(triple.ms, triple.td)
  /\ hasMicrosoftTaskChanged(triple.ms, triple.stored)
  /\ hasTodoistTaskChanged(triple.td, triple.stored)
  /\ triple.ms.mod # Null
  /\ triple.ms.mod = triple.stored.tdMod

(* C9: completion-mismatch winner.  Handling a matched pair that disagrees *)
(* on completion issues one call: to Todoist when the Microsoft stamp is   *)
(* known and strictly newer than the stored Todoist-write stamp, to        *)
(* Microsoft otherwise.  On equal stamps the engine calls Todoist.         *)
C9_CompletionWinner ==
  [][\A n \in NativeIds : CompletionMismatch(n) =>
       /\ Cardinality(NewCalls) = 1
       /\ \A i \in NewCalls :
            IF RemoteStrictlyNewer(n)
            THEN calls'[i].op \in {"complete", "reopen"}
            ELSE calls'[i].op \in MicrosoftOps]_vars

(* C10: one bad item never blocks the batch.  A pass of the Microsoft      *)
(* engine that fetched its lists ends with every item, task and row of     *)
(* its three phases handled, none left out after a failed call.  A failed  *)
(* complete or reopen on a completion mismatch breaks it.                  *)
C10_BatchNotBlocked ==
  PassEnded => skipped = <<>>

----------------------------------------------------------------------------
(* Failures in a one-way pass *)

FailedNewCalls == {i \in NewCalls : ~calls'[i].ok}

(* C11: every per-item failure of a one-way pass is recorded.  A step of   *)
(* a running pass in which a call fails (mirrored create, content or label *)
(* update, completion or reopen, mirrored or native delete) adds an entry  *)
(* to the errors of the result.  The Google engine logs the failure and    *)
(* records nothing.                                                        *)
C11_FailureRecorded ==
  [][(pc = "run" /\ FailedNewCalls # {}) =>
       result'.errors > result.errors]_vars

----------------------------------------------------------------------------
(* sync() seen scope by scope: the mapped lists of one pass of the Google  *)
(* engine or of the Microsoft engine, each list resolving its Todoist      *)
(* project and fetching its items, either of which can fail                *)

MaxScopes == 3

Scopes == 1..MaxScopes

ScopeOutcomes == {"ok", "resolveFails", "fetchFails"}

InitScopes ==
  /\ source \in {"google", "microsoft"}
  /\ mapping = [include_completed |-> FALSE, delete_after_sync |-> FALSE,
                tags |-> <<>>]
  /\ tzWest = FALSE
  /\ clock = 0
  /\ filterActive = FALSE
  /\ triple = NoTriple
  /\ Fresh
  /\ scopeOutcome \in [Scopes -> ScopeOutcomes]
  /\ scopePhase = IF source = "google" THEN "ensure" ELSE "lists"
  /\ scopeIdx = 1
  /\ reconciled = {}
  /\ managed = <<>>
  /\ isShuttingDown = FALSE
  /\ storeClosed = FALSE
  /\ args = NoCall

ScopeStep ==
  /\ UNCHANGED <<source, mapping, tzWest, imported, remote, todoist, rows,
                 clock, pc, queue, sweepOutcome, fetchOutcome, rowsBefore,
                 prevFetched, fetched, storedAtFetch, calls, passes,
                 envSteps, fails, nextNative, dirty, clean, steady,
                 filterActive, tdFetched, seenTodoistIds, skipped, triple,
                 winner, scopeOutcome>>
  /\ UNCHANGED daemonVars
  /\ UNCHANGED callVars

(* GoogleTasksSource.ensureTodoistProjects: resolveProjectId for each      *)
(* mapped list, inside the try of sync() only                              *)
EnsureTodoistProject ==
  /\ source = "google"
  /\ scopePhase = "ensure"
  /\ ScopeStep
  /\ reconciled' = reconciled
  /\ IF scopeOutcome[scopeIdx] = "resolveFails"
     THEN /\ result' = [result EXCEPT !.success = FALSE, !.errors = @ + 1]
          /\ scopePhase' = "done"
          /\ scopeIdx' = scopeIdx
     ELSE /\ result' = result
          /\ scopePhase' = IF scopeIdx = MaxScopes THEN "lists" ELSE "ensure"
          /\ scopeIdx' = IF scopeIdx = MaxScopes THEN 1 ELSE scopeIdx + 1

(* GoogleTasksSource.sync: the loop over the lists, syncTaskList in a try *)
GoogleSyncList ==
  /\ source = "google"
  /\ scopePhase = "lists"
  /\ ScopeStep
  /\ IF scopeOutcome[scopeIdx] = "fetchFails"
     THEN /\ result' = [result EXCEPT !.errors = @ + 1]
          /\ reconciled' = reconciled
     ELSE /\ result' = result
          /\ reconciled' = reconciled \cup {scopeIdx}
  /\ scopePhase' = IF scopeIdx = MaxScopes THEN "done" ELSE "lists"
  /\ scopeIdx' = IF scopeIdx = MaxScopes THEN scopeIdx ELSE scopeIdx + 1

(* MicrosoftTodoSource.syncBidirectional: the loop over the lists,         *)
(* syncList in a try; success is decided after the last list               *)
MicrosoftSyncList ==
  /\ source = "microsoft"
  /\ scopePhase = "lists"
  /\ ScopeStep
  /\ LET errors == IF scopeOutcome[scopeIdx] = "ok" THEN result.errors
                   ELSE result.errors + 1
     IN /\ result' = [result EXCEPT
                        !.errors = errors,
                        !.success = IF scopeIdx = MaxScopes THEN errors = 0
                                    ELSE @]
        /\ reconciled' = IF scopeOutcome[scopeIdx] = "ok"
                         THEN reconciled \cup {scopeIdx} ELSE reconciled
  /\ scopePhase' = IF scopeIdx = MaxScopes THEN "done" ELSE "lists"
  /\ scopeIdx' = IF scopeIdx = MaxScopes THEN scopeIdx ELSE scopeIdx + 1

NextScopes ==
  \/ EnsureTodoistProject
  \/ GoogleSyncList
  \/ MicrosoftSyncList

SpecScopes == InitScopes /\ [][NextScopes]_vars

(* C12: per-scope setup failure isolation.  When the pass is over, every   *)
(* mapped list whose own project resolution and fetch did not fail has     *)
(* been reconciled.  In the Google engine a failed project resolution of   *)
(* one list ends the pass for all of them.                                 *)
C12_OtherScopesRun ==
  scopePhase = "done" =>
    \A sc \in Scopes : scopeOutcome[sc] = "ok" => sc \in reconciled

(* C13: pass-level failure keeps the tallies.  While a pass of the         *)
(* Microsoft engine runs, an exception included, no tally of what was      *)
(* created, updated, deleted or completed so far is ever taken back.  An   *)
(* exception leaving syncList discards the tallies of the list.            *)
C13_TalliesKept ==
  [][pc = "run" =>
       \A f \in {"created", "updated", "deleted", "completed"} :
         result'[f] >= result[f]]_vars

----------------------------------------------------------------------------
(* The start of a one-way pass *)

StartsPass == pc = "idle" /\ (pc' = "run" \/ passes' = passes + 1)

QueuedItems ==
  {queue'[i].n : i \in {j \in DOMAIN queue' : queue'[j].kind = "item"}}

(* C14: a failure inside the stale-cache sweep never blocks the pass.  A   *)
(* pass whose sweep failed (its project resolution threw and the sweep was *)
(* skipped, or its Todoist fetch failed) and whose own fetch succeeded     *)
(* goes on to reconcile: it is running, with a step queued for every item  *)
(* it fetched, and it has not been marked as failed.                       *)
C14_SweepNeverBlocks ==
  [][(StartsPass /\ sweepOutcome' # "ok" /\ fetchOutcome' = "ok") =>
       /\ pc' = "run"
       /\ QueuedItems = Fetched
       /\ result'.success
       /\ result'.errors = 0]_vars

(* C14 witness: a pass whose sweep was skipped has ended, having created   *)
(* a task                                                                  *)
C14_SweepSkippedPassRan ==
  /\ PassEnded
  /\ sweepOutcome = "skipped"
  /\ result.created >= 1

----------------------------------------------------------------------------
(* The daemon (main): the initial sync of every source in turn, then one   *)
(* polling loop per source, and the shutdown handler.  A pass is seen from *)
(* outside: it is started, and it ends with a result or an exception.      *)
(* managed[s]: init is where main's initial loop stands for the source     *)
(* (todo, running, done, polling), timer is managed.timeout being armed,   *)
(* inflight the number of passes of the source started and not ended,      *)
(* last how its last pass ended.                                           *)

MaxSources == 3

MaxInFlight == 2

ManagedIds == 1..MaxSources

PassOutcomes == {"ok", "failed", "threw"}

InitDaemon ==
  /\ source = "google"
  /\ mapping = [include_completed |-> FALSE, delete_after_sync |-> FALSE,
                tags |-> <<>>]
  /\ tzWest = FALSE
  /\ clock = 0
  /\ filterActive = FALSE
  /\ triple = NoTriple
  /\ Fresh
  /\ scopeOutcome = <<>>
  /\ scopePhase = "none"
  /\ scopeIdx = 0
  /\ reconciled = {}
  /\ managed = [s \in ManagedIds |->
                  [init |-> "todo", timer |-> FALSE, inflight |-> 0,
                   last |-> "none"]]
  /\ isShuttingDown = FALSE
  /\ storeClosed = FALSE
  /\ args = NoCall

DaemonStep ==
  /\ UNCHANGED <<source, mapping, tzWest, imported, remote, todoist, rows,
                 clock, pc, queue, sweepOutcome, fetchOutcome, rowsBefore,
                 prevFetched, fetched, storedAtFetch, result, calls, passes,
                 envSteps, fails, nextNative, dirty, clean, steady,
                 filterActive, tdFetched, seenTodoistIds, skipped, triple,
                 winner>>
  /\ UNCHANGED scopeVars
  /\ UNCHANGED callVars

AliveAfterExit == TRUE

(* the process runs: shutdown() ends in process.exit on every path *)
Alive == ~isShuttingDown

syncSourceNoCatch(outcome) ==
  [returned |-> outcome # "threw", success |-> outcome = "ok"]

(* syncSource: whatever engine.sync() does, a result is returned; an       *)
(* exception becomes a result with success = false                         *)
syncSource(outcome) == [returned |-> TRUE, success |-> outcome = "ok"]

timerAfterFiringInterval == TRUE

(* setTimeout is one-shot: once the callback runs the timer is not armed *)
timerAfterFiring == FALSE

(* main: for (const managed of managedSources) await syncSource(managed) *)
InitialSync(s) ==
  /\ Alive
  /\ managed[s].init = "todo"
  /\ \A t \in ManagedIds : t < s => managed[t].init = "done"
  /\ managed' = [managed EXCEPT ![s].init = "running",
                                ![s].inflight = @ + 1]
  /\ UNCHANGED <<isShuttingDown, storeClosed>>
  /\ DaemonStep

(* main: for (const managed of managedSources) scheduleSourceSync(managed) *)
StartPolling ==
  /\ Alive
  /\ \A s \in ManagedIds : managed[s].init = "done"
  /\ managed' = [s \in ManagedIds |->
                   [managed[s] EXCEPT !.init = "polling", !.timer = TRUE]]
  /\ UNCHANGED <<isShuttingDown, storeClosed>>
  /\ DaemonStep

(* scheduleSourceSync: the timer callback starts the pass *)
TimerFires(s) ==
  /\ Alive
  /\ managed[s].timer
  /\ managed[s].inflight < MaxInFlight
  /\ managed' = [managed EXCEPT ![s].timer = timerAfterFiring,
                                ![s].inflight = @ + 1]
  /\ UNCHANGED <<isShuttingDown, storeClosed>>
  /\ DaemonStep

(* the pass ends.  In the initial loop main goes on to the next source (a  *)
(* rejection of syncSource would end main: process.exit(1)); in a polling  *)
(* loop the callback updates the statistics and calls scheduleSourceSync,  *)
(* which arms the timer unless isShuttingDown                              *)
PassEnds(s) ==
  /\ Alive
  /\ managed[s].inflight > 0
  /\ \E outcome \in PassOutcomes :
       LET r == syncSource(outcome)
           initial == managed[s].init = "running"
       IN /\ managed' = [managed EXCEPT
               ![s].inflight = @ - 1,
               ![s].last = outcome,
               ![s].init = IF initial /\ r.returned THEN "done" ELSE @,
               ![s].timer = IF initial THEN @
                            ELSE @ \/ (r.returned /\ ~isShuttingDown)]
          /\ isShuttingDown' = (initial /\ ~r.returned)
  /\ UNCHANGED storeClosed
  /\ DaemonStep

(* shutdown(signal): sets isShuttingDown, clears the timers, arms the 10 s *)
(* timer, closes the store, clears that timer and exits, with no await in  *)
(* between                                                                 *)
Shutdown ==
  /\ Alive
  /\ isShuttingDown' = TRUE
  /\ managed' = [s \in ManagedIds |-> [managed[s] EXCEPT !.timer = FALSE]]
  /\ storeClosed' = TRUE
  /\ DaemonStep

InitialSyncs == \E s \in ManagedIds : InitialSync(s)

TimersFire == \E s \in ManagedIds : TimerFires(s)

PassesEnd == \E s \in ManagedIds : PassEnds(s)

NextDaemon ==
  \/ InitialSyncs
  \/ StartPolling
  \/ TimersFire
  \/ PassesEnd
  \/ Shutdown

(* timers fire, passes end, main goes on; a signal need not come *)
SpecDaemon ==
  /\ InitDaemon
  /\ [][NextDaemon]_vars
  /\ WF_vars(StartPolling)
  /\ \A s \in ManagedIds :
       /\ WF_vars(InitialSync(s))
       /\ WF_vars(TimerFires(s))
       /\ WF_vars(PassEnds(s))

(* C15: no overlapping passes.  Each source has at most one pass in        *)
(* flight, and while a pass of a source is in flight its timer is not      *)
(* armed.                                                                  *)
C15_NoOverlappingPasses ==
  \A s \in DOMAIN managed :
    /\ managed[s].inflight <= 1
    /\ managed[s].timer => managed[s].inflight = 0

(* C15 witness: a polling pass of a source is in flight after an earlier   *)
(* pass of it ended                                                        *)
C15_PollingPassInFlight ==
  \E s \in DOMAIN managed :
    /\ managed[s].init = "polling"
    /\ managed[s].inflight = 1
    /\ managed[s].last # "none"

(* C16: graceful shutdown ordering.  The store is closed only when no pass *)
(* is in flight.  shutdown() closes it at once, whatever is in flight; the *)
(* 10 s timer is armed and cleared in the same turn and bounds nothing.    *)
C16_ClosedAfterPasses ==
  storeClosed => \A s \in DOMAIN managed : managed[s].inflight = 0

(* C17: a failing source is retried.  Whenever a source has no pass in     *)
(* flight after a pass of it ended, however that pass ended, a next pass   *)
(* of the source is eventually started, unless shutdown is initiated;      *)
(* what the other sources' passes return makes no difference.              *)
C17_PassFollowsPass ==
  \A s \in ManagedIds :
    (managed # <<>> /\ managed[s].inflight = 0 /\ managed[s].last # "none")
      ~> (managed[s].inflight > 0 \/ isShuttingDown)

(* C17 witness: a pass of a source is in flight after its last pass threw, *)
(* while the last pass of another source failed                            *)
C17_RetriedAfterFailure ==
  \E s, t \in DOMAIN managed :
    /\ s # t
    /\ managed[s].init = "polling"
    /\ managed[s].inflight = 1
    /\ managed[s].last = "threw"
    /\ managed[t].last = "failed"


----------------------------------------------------------------------------
(* C18: completion sync from a one-way source.  A tracked item that is     *)
(* still on the source, completed there, has its mirrored task completed   *)
(* by a later pass and never deleted: no step of a running pass issues a   *)
(* successful mirrored delete of a task mirrored as not completed whose    *)
(* item is present and completed on the source, whatever include_completed *)
(* says.                                                                   *)
CompletedOnSource(n) == remote[n].present /\ remote[n].done

C18_CompletedNeverDeleted ==
  [][pc = "run" =>
       \A i \in NewCalls :
          (calls'[i].op = "delete" /\ calls'[i].ok
             /\ ~todoist[calls'[i].tid].done)
             => ~CompletedOnSource(calls'[i].nid)]_vars


----------------------------------------------------------------------------
(* C19: tag invariant.  After every snapshot write of a reconciler (a row  *)
(* created or rewritten by a step of a running pass), the row's applied    *)
(* tags are exactly the tags configured for the mapping, and they are the  *)
(* labels the system last pushed to the mirrored task.                     *)
RowWritten(n) == rows'[n].present /\ rows'[n] # rows[n]

C19_AppliedTagsArePushed ==
  [][pc = "run" =>
       \A n \in NativeIds :
          RowWritten(n) =>
            /\ parseStoredTags(rows'[n].tags) = Tags
            /\ rows'[n].tid # Null =>
                 todoist'[rows'[n].tid].labels = Tags]_vars


----------------------------------------------------------------------------
(* One-way sources and the native platform *)

NativeWrites == {i \in NewCalls : calls'[i].op = "srcDelete"}

(* the item has a mirrored id: its row carries one, or this step created   *)
(* its mirrored task                                                       *)
HasMirroredId(n) ==
  \/ rows[n].present /\ rows[n].tid # Null
  \/ \E j \in NewCalls :
        calls'[j].op = "create" /\ calls'[j].ok /\ calls'[j].nid = n

(* a live mirrored task of the item exists when the step is over *)
HasLiveMirror(n) ==
  \E t \in 1..Len(todoist') : todoist'[t].live /\ todoist'[t].nid = n

NativeFrame(n) ==
  remote'[n] # remote[n] =>
    /\ remote'[n] = NoItem
    /\ \E i \in NativeWrites : calls'[i].nid = n /\ calls'[i].ok

(* C20: one-way sources are read-only towards the native platform.  The    *)
(* only native write of a pass is a delete, issued only when               *)
(* delete_after_sync is enabled and only for an item whose mirrored        *)
(* counterpart exists: a live mirrored task of the item is there when the  *)
(* step that deleted the native item is over.                              *)
C20_DeletedOnlyIfMirrored ==
  [][pc = "run" =>
       \A i \in NativeWrites :
          mapping.delete_after_sync /\ HasLiveMirror(calls'[i].nid)]_vars

(* What the engines do keep: the native platform changes only by the       *)
(* removal of an item through a native delete, issued only when            *)
(* delete_after_sync is enabled, at most once per item processed, and only *)
(* for an item that has a mirrored id.                                     *)
NativeReadOnly ==
  [][pc = "run" =>
       /\ \A n \in NativeIds : NativeFrame(n)
       /\ Cardinality(NativeWrites) <= 1
       /\ \A i \in NativeWrites :
             mapping.delete_after_sync /\ HasMirroredId(calls'[i].nid)
       /\ ~mapping.delete_after_sync => remote' = remote]_vars


----------------------------------------------------------------------------
(* Why a snapshot row disappears *)

RowRemoved(n) == rows[n].present /\ ~rows'[n].present

(* the sweep of the pass that starts: the row's mirrored id is not in the  *)
(* set of ids the sweep obtained (the set is empty when its fetch failed)  *)
SweptAsStale(n) ==
  /\ StartsPass
  /\ rows[n].tid # Null
  /\ \/ sweepOutcome' = "empty"
     \/ sweepOutcome' = "ok" /\ ~Live(rows[n].tid)

UnseenDeleted(n) ==
  Running("del") /\ Head(queue).n = n /\ ~fetched[n].present

DeletedAfterSync(n) ==
  /\ ItemStep(n)
  /\ mapping.delete_after_sync
  /\ ~remote'[n].present
  /\ \E i \in NativeWrites : calls'[i].nid = n /\ calls'[i].ok

----------------------------------------------------------------------------
(* The bi-directional pass, pair by pair *)

CompletionOps == {"complete", "reopen", "msComplete", "msReopen"}

ContentOps == {"update", "msUpdate"}

(* a matched pair of the pass that disagrees on completed / not completed  *)
MismatchedPair(n) ==
  /\ fetched[n].present
  /\ storedAtFetch[n].present
  /\ storedAtFetch[n].tid \in ProjectTaskIds(tdFetched)
  /\ hasCompletionStatusChanged(fetched[n], tdFetched[storedAtFetch[n].tid])

(* the one call carries the completion state of the other side *)
CarriesOtherSide(n, op) ==
  LET msDone == fetched[n].status = "completed"
  IN \/ op = "complete" /\ msDone
     \/ op = "reopen" /\ ~msDone
     \/ op = "msComplete" /\ ~msDone
     \/ op = "msReopen" /\ msDone

RowAfterCompletion(n) ==
  /\ rows'[n].present
  /\ rows'[n].status = fetched[n].status
  /\ rows'[n].msMod = fetched[n].mod
  /\ rows'[n].tdMod = clock

MirroredGone(n) ==
  /\ Running("ms")
  /\ Head(queue).n = n
  /\ storedAtFetch[n].present
  /\ storedAtFetch[n].tid # Null
  /\ storedAtFetch[n].tid \notin ProjectTaskIds(tdFetched)

RemoteCreates == {i \in NewCalls : calls'[i].op = "msCreate" /\ calls'[i].ok}

(* C24: mirrored-driven pass.  Every Microsoft item the pass creates for a *)
(* fetched Todoist task gets, in the same step, its snapshot row linking   *)
(* the new Microsoft id and the Todoist id, so that no later pass creates  *)
(* the task on Microsoft again.  A failed completion after the create      *)
(* breaks it: the item is there and no row is written.                     *)
C24_CreatedOnceAndLinked ==
  [][pc = "run" =>
       \A i \in RemoteCreates :
          /\ rows'[calls'[i].nid].present
          /\ rows'[calls'[i].nid].tid = calls'[i].tid]_vars


(* the step about to run is the phase 3 look at the row of n *)
StoredStep(n) == Running("stored") /\ Head(queue).n = n

MirroredFetched(n) ==
  /\ storedAtFetch[n].tid # Null
  /\ storedAtFetch[n].tid \in ProjectTaskIds(tdFetched)

OthersRowsKept(n) == \A m \in NativeIds \ {n} : rows'[m] = rows[m]

(* C25: orphan cleanup.  In phase 3 a row whose Microsoft item is not in   *)
(* the filtered fetch and whose Todoist task is not in the Todoist fetch   *)
(* is removed with no call; a row whose Microsoft item is absent and whose *)
(* Todoist task was fetched causes exactly one Todoist delete call for     *)
(* that task and is removed exactly when the call succeeds; a row whose    *)
(* Microsoft item was fetched is left alone, and no step of the pass       *)
(* removes the row of a fetched Microsoft item.                            *)
C25_OrphanCleanup ==
  [][pc = "run" =>
       \A n \in NativeIds :
          /\ (RowRemoved(n) /\ source = "microsoft") =>
                StoredStep(n) /\ ~fetched[n].present
          /\ StoredStep(n) =>
               /\ OthersRowsKept(n)
               /\ (~fetched[n].present /\ ~MirroredFetched(n)) =>
                     NewCalls = {} /\ ~rows'[n].present
               /\ (~fetched[n].present /\ MirroredFetched(n)) =>
                     /\ Cardinality(NewCalls) = 1
                     /\ \A i \in NewCalls :
                           /\ calls'[i].op = "delete"
                           /\ calls'[i].tid = storedAtFetch[n].tid
                           /\ rows'[n].present <=> ~calls'[i].ok
                           /\ ~calls'[i].ok => rows'[n] = rows[n]
               /\ fetched[n].present =>
                     NewCalls = {} /\ rows'[n] = rows[n]]_vars

C25_OrphanRemoved ==
  /\ pc = "run"
  /\ source = "microsoft"
  /\ \E n \in NativeIds :
        /\ storedAtFetch[n].present /\ ~fetched[n].present
        /\ MirroredFetched(n)
        /\ ~rows[n].present
        /\ \E i \in DOMAIN calls :
              calls[i].op = "delete" /\ calls[i].ok /\ calls[i].nid = n


----------------------------------------------------------------------------
(* Storage.cleanupStaleTasks, cleanupStaleAlexaReminders and               *)
(* cleanupStaleAlexaShoppingItems on their own: any table, any set of      *)
(* valid Todoist ids.  The three differ in the table they read only.       *)

MaxSweepIds == 2

SweepIds == 1..MaxSweepIds

SweepRows ==
  {NoRow} \cup [present : {TRUE}, tid : {Null} \cup SweepIds, title : Titles]

cleanupStaleAllWithId(rs, validTodoistIds) ==
  [rs |-> [n \in NativeIds |->
             IF rs[n].present /\ rs[n].tid # Null THEN NoRow ELSE rs[n]],
   removed |-> Cardinality(getAllTasksWithTodoistId(rs))]

(* the loop over getAllTasksWithTodoistId(): delete and count *)
RECURSIVE cleanupStaleLoop(_, _, _, _)
cleanupStaleLoop(tasks, rs, removed, validTodoistIds) ==
  IF tasks = <<>> THEN [rs |-> rs, removed |-> removed]
  ELSE LET n == Head(tasks)
       IN IF rs[n].tid # Null /\ rs[n].tid \notin validTodoistIds
          THEN cleanupStaleLoop(Tail(tasks), storageDelete(rs, n),
                                removed + 1, validTodoistIds)
          ELSE cleanupStaleLoop(Tail(tasks), rs, removed, validTodoistIds)

cleanupStale(rs, validTodoistIds) ==
  cleanupStaleLoop(SetToSeq(getAllTasksWithTodoistId(rs)), rs, 0,
                   validTodoistIds)

InitSweep ==
  /\ source \in Sources
  /\ mapping = [include_completed |-> FALSE, delete_after_sync |-> FALSE,
                tags |-> <<>>]
  /\ tzWest = FALSE
  /\ clock = 0
  /\ filterActive = FALSE
  /\ triple = NoTriple
  /\ Fresh
  /\ scopeOutcome = <<>>
  /\ scopePhase = "none"
  /\ scopeIdx = 0
  /\ reconciled = {}
  /\ managed = <<>>
  /\ isShuttingDown = FALSE
  /\ storeClosed = FALSE
  /\ args \in [fn : {"cleanupStale"}, rs : [NativeIds -> SweepRows],
               valid : SUBSET SweepIds]

CallStep ==
  /\ UNCHANGED <<source, mapping, tzWest, imported, remote, todoist, rows,
                 clock, pc, queue, sweepOutcome, fetchOutcome, rowsBefore,
                 prevFetched, fetched, storedAtFetch, result, calls, passes,
                 envSteps, fails, nextNative, dirty, clean, steady,
                 filterActive, tdFetched, seenTodoistIds, skipped, triple,
                 winner, args>>
  /\ UNCHANGED scopeVars
  /\ UNCHANGED daemonVars

Sweep ==
  /\ args.fn = "cleanupStale"
  /\ ret = NoCall
  /\ ret' = [fn |-> "cleanupStale"] @@ cleanupStale(args.rs, args.valid)
  /\ CallStep

SpecSweep == InitSweep /\ [][Sweep]_vars

StaleIn(rs, valid) ==
  {n \in NativeIds : rs[n].present /\ rs[n].tid # Null /\ rs[n].tid \notin valid}

(* C26: stale-cache sweep effect.  Given the set of valid Todoist ids, the *)
(* sweep deletes exactly the rows whose Todoist id is not null and not in  *)
(* the set, returns how many they are, and leaves every other row (null    *)
(* Todoist id, or id in the set) as it was.  The sweep of the engines'     *)
(* passes removes the same rows.                                           *)
C26_SweepEffect ==
  ret.fn = "cleanupStale" =>
    /\ \A n \in NativeIds :
          IF n \in StaleIn(args.rs, args.valid)
          THEN ret.rs[n] = NoRow
          ELSE ret.rs[n] = args.rs[n]
    /\ ret.removed = Cardinality(StaleIn(args.rs, args.valid))
    /\ ret.rs = cleanupStaleTasks(args.rs, args.valid)

C26_SweptSomeKeptSome ==
  /\ ret.fn = "cleanupStale"
  /\ ret.removed = 1
  /\ \E n \in NativeIds : args.rs[n].present /\ ret.rs[n] = NoRow
  /\ \E n \in NativeIds : ret.rs[n].present /\ ret.rs[n].tid = Null


----------------------------------------------------------------------------
(* Subtasks (Google) *)

(* the mirrored id a successful create call of the running pass gave to    *)
(* the item                                                                *)
MirroredInPass(n) ==
  {calls[j].tid : j \in {k \in DOMAIN calls :
      calls[k].nid = n /\ calls[k].op = "create" /\ calls[k].ok}}

(* C27: parent before child.  A child task created in Todoist whose parent *)
(* was fetched and mirrored earlier in the same pass is created with its   *)
(* parent set to the parent's Todoist id, for every mapping, with          *)
(* delete_after_sync too.                                                  *)
C27_ChildUnderParent ==
  [][\A n \in NativeIds :
       (ItemStep(n) /\ source = "google" /\ fetched[n].parent # Null) =>
         \A i \in NewCalls :
            (calls'[i].op = "create" /\ calls'[i].ok) =>
              \A p \in MirroredInPass(fetched[n].parent) :
                 todoist'[calls'[i].tid].parent = p]_vars


----------------------------------------------------------------------------
(* delete_after_sync *)

MirrorDeletes == {i \in NewCalls : calls'[i].op = "delete" /\ calls'[i].ok}

(* C28: delete_after_sync.  With the flag on, an item that was mirrored is *)
(* deleted from the source and its row removed; when the native delete     *)
(* fails the row is kept and the delete is tried again on the next pass;   *)
(* the mirrored task is not deleted by this or any later pass: no pass of  *)
(* a mapping with the flag on deletes the mirrored task of an item that is *)
(* still on the source.                                                    *)
C28_MirrorOutlivesSync ==
  [][(pc = "run" /\ mapping.delete_after_sync) =>
       \A i \in MirrorDeletes : ~remote[calls'[i].nid].present]_vars

(* What the engines do keep, step by step: with the flag on, processing a  *)
(* fetched item whose row carries a mirrored id issues exactly one native  *)
(* delete, whatever else changed; the item and its row go when the delete  *)
(* succeeds, both stay when it fails; and the step deletes no mirrored     *)
(* task.                                                                   *)
DeleteAfterSyncStep ==
  [][\A n \in NativeIds :
       (ItemStep(n) /\ mapping.delete_after_sync
          /\ storedAtFetch[n].present /\ storedAtFetch[n].tid # Null) =>
         /\ Cardinality(NativeWrites) = 1
         /\ \A i \in NativeWrites :
               /\ calls'[i].nid = n
               /\ calls'[i].ok => ~remote'[n].present /\ ~rows'[n].present
               /\ ~calls'[i].ok => remote'[n] = remote[n] /\ rows'[n].present
         /\ MirrorDeletes = {}]_vars


----------------------------------------------------------------------------
(* The deletion loop of a one-way pass *)

QueuedDeletions ==
  {queue'[i].n : i \in {j \in DOMAIN queue' : queue'[j].kind = "del"}}

(* C29: one-way deletion pass.  A pass that fetched its items queues every *)
(* row it read whose native id the fetch did not return; handling such a   *)
(* row issues at most one call, the delete of the row's mirrored task,     *)
(* and, whether that call succeeds or fails, removes the row, adds 1 to    *)
(* deleted, leaves the pass successful and goes on with the rest; a        *)
(* mirrored delete is only ever issued for a row that is still there, so   *)
(* a failed one is not tried again.                                        *)
C29_DeletionPass ==
  [][/\ (StartsPass /\ pc' = "run" /\ fetchOutcome' = "ok") =>
          QueuedDeletions =
            {n \in NativeIds : rows'[n].present /\ ~fetched'[n].present}
     /\ \A n \in NativeIds :
          UnseenDeleted(n) =>
            /\ ~rows'[n].present
            /\ result'.deleted = result.deleted + 1
            /\ result'.success
            /\ queue' = Tail(queue)
            /\ Cardinality(NewCalls) <= 1
            /\ \A i \in NewCalls :
                  calls'[i].op = "delete" /\ calls'[i].tid = rows[n].tid
     /\ pc = "run" =>
          \A i \in NewCalls :
             calls'[i].op = "delete" =>
               /\ rows[calls'[i].nid].present
               /\ Running("del")]_vars

C29_FailedDeleteRowGone ==
  /\ PassEnded
  /\ result.success
  /\ result.deleted >= 1
  /\ \E i \in DOMAIN calls :
        /\ calls[i].op = "delete"
        /\ ~calls[i].ok
        /\ ~rows[calls[i].nid].present
        /\ Live(calls[i].tid)


----------------------------------------------------------------------------
(* The change detectors on their own: hasGoogleTaskChanged,                *)
(* hasAlexaReminderChanged and hasAlexaShoppingItemChanged, for any item   *)
(* and any row, their stamps present, missing or not a date                *)

MaxStamp == 2

InitDetect ==
  /\ source \in Sources
  /\ mapping = [include_completed |-> FALSE, delete_after_sync |-> FALSE,
                tags |-> <<>>]
  /\ tzWest \in (IF source = "google" THEN BOOLEAN ELSE {FALSE})
  /\ clock = 0
  /\ filterActive = FALSE
  /\ triple = NoTriple
  /\ Fresh
  /\ scopeOutcome = <<>>
  /\ scopePhase = "none"
  /\ scopeIdx = 0
  /\ reconciled = {}
  /\ managed = <<>>
  /\ isShuttingDown = FALSE
  /\ storeClosed = FALSE
  /\ \E item, stored \in
          [title : Titles,
           notes : IF source = "google" THEN {"", "n"} ELSE {""},
           done : BOOLEAN,
           due : IF source = "shopping" THEN {Null} ELSE {Null} \cup Dates,
           upd : {Null, Unparseable} \cup 1..MaxStamp] :
       args = [fn |-> "hasChanged", item |-> item, stored |-> stored]

Detect ==
  /\ args.fn = "hasChanged"
  /\ ret = NoCall
  /\ ret' = [fn |-> "hasChanged",
             changed |->
               IF source = "google"
               THEN hasGoogleTaskChanged(args.item, args.stored, tzWest)
               ELSE IF source = "reminders"
               THEN hasAlexaReminderChanged(args.item, args.stored)
               ELSE hasAlexaShoppingItemChanged(args.item, args.stored)]
  /\ CallStep

SpecDetect == InitDetect /\ [][Detect]_vars

StampsComparable(item, stored) ==
  /\ item.upd # Null /\ stored.upd # Null
  /\ item.upd # Unparseable /\ stored.upd # Unparseable

FieldsDiffer(item, stored) ==
  \/ item.title # stored.title
  \/ item.notes # stored.notes
  \/ item.done # stored.done
  \/ item.due # stored.due

(* C30: change detector.  hasChanged(remote, snapshot) is true exactly     *)
(* when the remote stamp is strictly later than the stored one, if both    *)
(* stamps are present and are dates; in every other case (a stamp missing  *)
(* or not a date on either side) it is true exactly when title, notes,     *)
(* status or due date differ between the item and the snapshot.            *)
C30_ChangeDetector ==
  ret.fn = "hasChanged" =>
    ret.changed =
      IF StampsComparable(args.item, args.stored)
      THEN args.item.upd > args.stored.upd
      ELSE FieldsDiffer(args.item, args.stored)

----------------------------------------------------------------------------
(* Tag comparison on its own: parseStoredTags and tagsEqual applied to a   *)
(* stored applied_tags text and to the configured tags of a mapping        *)

MaxTagLen == 3

RECURSIVE TagLists(_)
TagLists(k) ==
  IF k = 0 THEN {<<>>}
  ELSE TagLists(k - 1) \cup
       {Append(t, l) : t \in {u \in TagLists(k - 1) : Len(u) = k - 1},
                       l \in Labels}

StoredTagTexts ==
  {NullTags, NotJson} \cup
  {[isNull |-> FALSE, json |-> t] : t \in TagLists(MaxTagLen)}

InitTags ==
  /\ source = "google"
  /\ mapping = [include_completed |-> FALSE, delete_after_sync |-> FALSE,
                tags |-> <<>>]
  /\ tzWest = FALSE
  /\ clock = 0
  /\ filterActive = FALSE
  /\ triple = NoTriple
  /\ Fresh
  /\ scopeOutcome = <<>>
  /\ scopePhase = "none"
  /\ scopeIdx = 0
  /\ reconciled = {}
  /\ managed = <<>>
  /\ isShuttingDown = FALSE
  /\ storeClosed = FALSE
  /\ \E storedTags \in StoredTagTexts, configuredTags \in TagLists(MaxTagLen) :
       args = [fn |-> "tagsEqual", storedTags |-> storedTags,
               configuredTags |-> configuredTags]

CompareTags ==
  /\ args.fn = "tagsEqual"
  /\ ret = NoCall
  /\ ret' = [fn |-> "tagsEqual",
             storedTags |-> parseStoredTags(args.storedTags),
             equal |-> tagsEqual(parseStoredTags(args.storedTags),
                                 args.configuredTags),
             swapped |-> tagsEqual(args.configuredTags,
                                   parseStoredTags(args.storedTags))]
  /\ CallStep

SpecTags == InitTags /\ [][CompareTags]_vars

Occurrences(tags, l) == Cardinality({i \in DOMAIN tags : tags[i] = l})

(* the labels a stored text stands for: none when the text is missing or   *)
(* is not JSON                                                             *)
StoredLabels(storedTags) ==
  IF storedTags.isNull \/ storedTags = NotJson THEN <<>>
  ELSE storedTags.json

(* C31: tag comparison.  tagsEqual(a, b) is true exactly when a and b hold *)
(* the same labels the same number of times each, in any order; it gives   *)
(* the same answer with its arguments swapped; a missing or unparseable    *)
(* stored tag text is compared as the empty list.                          *)
C31_TagComparison ==
  ret.fn = "tagsEqual" =>
    /\ ret.storedTags = StoredLabels(args.storedTags)
    /\ ret.equal =
         (\A l \in Labels :
            Occurrences(StoredLabels(args.storedTags), l) =
            Occurrences(args.configuredTags, l))
    /\ ret.swapped = ret.equal

(* two lists that differ in order only, with a repeated label, are equal *)
C31_EqualInAnotherOrder ==
  /\ ret.fn = "tagsEqual"
  /\ ret.equal
  /\ ret.storedTags # args.configuredTags
  /\ Len(args.configuredTags) = 3
  /\ TagSet(args.configuredTags) = Labels

(* C31 as stated: tagsEqual is equality of the sets of labels, whatever    *)
(* the number of times a label is repeated.                                *)
C31_AsStated ==
  ret.fn = "tagsEqual" =>
    ret.equal =
      (TagSet(StoredLabels(args.storedTags)) = TagSet(args.configuredTags))

----------------------------------------------------------------------------
(* The one-time import of completed Google tasks *)

PassStarts == pc = "idle" /\ (pc' = "run" \/ passes' # passes)

PassReachesEnd == pc = "run" /\ pc' = "idle"

CompletedFetched(f) == \E n \in NativeIds : f[n].present /\ f[n].done

----------------------------------------------------------------------------
(* The stale-cache sweep when its fetch of the mirrored ids fails *)

(* C33: if the sweep's fetch of the mirrored task ids fails for the        *)
(* project, the sweep deletes no snapshot row whose mirrored task lives in *)
(* that project: a failed fetch is not taken for an empty set of valid     *)
(* ids.                                                                    *)
C33_FailedFetchSweepsNothing ==
  [][PassStarts /\ sweepOutcome' = "empty" =>
       \A n \in NativeIds :
         rows[n].present /\ rows[n].tid # Null /\ Live(rows[n].tid)
           => rows'[n].present]_vars

----------------------------------------------------------------------------
(* Duplicates in the mirrored service *)

(* a Todoist task created for the native item n is still there *)
MirrorOf(n) == \E t \in 1..Len(todoist) : todoist[t].live /\ todoist[t].nid = n

(* C34: no duplicate mirrored items.  Whatever calls fail, no pass issues  *)
(* a create call for a native item while a Todoist task created earlier    *)
(* for that native item still exists.                                      *)
C34_NoSecondCreate ==
  [][pc = "run" =>
       \A i \in NewCalls :
         calls'[i].op = "create" => ~MirrorOf(calls'[i].nid)]_vars

----------------------------------------------------------------------------
(* Updates that fail *)

UpdateOps == {"update", "complete", "reopen"}

(* C35: failed updates are retried.  When the content update, the label    *)
(* update or the completion/reopen call for a changed item fails in a      *)
(* one-way pass, the snapshot row of the item is not advanced to the new   *)
(* remote values (so that the next pass sees the change again and          *)
(* re-issues the call).                                                    *)
C35_FailedUpdateKeepsRow ==
  [][pc = "run" =>
       \A i \in NewCalls :
         (/\ calls'[i].op \in UpdateOps
          /\ ~calls'[i].ok
          /\ rows[calls'[i].nid].present)
           => rows'[calls'[i].nid] \in {rows[calls'[i].nid], NoRow}]_vars

----------------------------------------------------------------------------
(* Two bi-directional passes in a row: the users act before the first pass *)
(* only, the second pass finds both platforms as the first one left them   *)

BeforeFirstPass == passes = 0 /\ pc = "idle"

(* the status of a Microsoft task: inProgress stands for the three values  *)
(* that are neither notStarted nor completed (inProgress, waitingOnOthers, *)
(* deferred), which the engine never tells apart                           *)
MicrosoftStatuses == Statuses \cup {"inProgress"}

MsAddItemAnyStatus ==
  /\ MsUserStep
  /\ RoomForItem
  /\ \E owner \in Owners, status \in MicrosoftStatuses :
       remote' = [remote EXCEPT ![nextNative] =
                    [present |-> TRUE, title |-> "a", status |-> status,
                     mod |-> clock, owner |-> owner]]
  /\ nextNative' = nextNative + 1
  /\ UNCHANGED <<todoist, clock, filterActive>>

NextMsTwice ==
  \/ BeforeFirstPass /\ MsAddItemAnyStatus
  \/ BeforeFirstPass /\ MsEditItem
  \/ BeforeFirstPass /\ TodoistAddTask
  \/ BeforeFirstPass /\ TodoistEditTask
  \/ Tick
  \/ MsStartPass
  \/ MsSyncItem
  \/ MsSyncTodoistTask
  \/ MsSyncStored
  \/ MsEndPass

SpecMsTwice == InitMs /\ [][NextMsTwice]_vars

InSecondPass == (passes = 1 /\ pc = "run") \/ passes = 2

(* C36: bi-directional idempotence.  After a bi-directional pass in which  *)
(* every call succeeded, a pass that follows it with no edit on either     *)
(* platform issues no call to either platform and returns all its tallies  *)
(* equal to 0.                                                             *)
C36_SecondPassIsQuiet ==
  (InSecondPass /\ fails = 0) =>
    /\ calls = <<>>
    /\ result.created = 0 /\ result.updated = 0 /\ result.deleted = 0
    /\ result.completed = 0 /\ result.tagsUpdated = 0
    /\ result.createdInSource = 0 /\ result.updatedInSource = 0
    /\ result.completedInSource = 0
    /\ result.errors = 0

----------------------------------------------------------------------------
(* The bi-directional engine polled for ever: one Microsoft task and its   *)
(* Todoist task, a bounded number of edits and of failed calls, and passes *)
(* that keep coming (the poll timer is re-armed after every pass)          *)

InitMsLive ==
  /\ source = "microsoft"
  /\ mapping = [include_completed |-> TRUE, delete_after_sync |-> FALSE,
                tags |-> <<>>]
  /\ tzWest = FALSE
  /\ clock = 1
  /\ filterActive = FALSE
  /\ triple = NoTriple
  /\ Fresh
  /\ Still

(* passes counts the passes up to MaxPasses only *)
CountNoFurther ==
  /\ pc = "idle"
  /\ passes = MaxPasses
  /\ passes' = MaxPasses - 1
  /\ UNCHANGED <<source, mapping, remote, todoist, rows, clock, pc, queue,
                 fetchOutcome, fetched, storedAtFetch, result, calls,
                 envSteps, fails, nextNative, filterActive, tdFetched,
                 seenTodoistIds, skipped>>
  /\ UNCHANGED oneWayVars

MsPass ==
  \/ MsStartPass
  \/ MsSyncItem
  \/ MsSyncTodoistTask
  \/ MsSyncStored
  \/ MsEndPass
  \/ CountNoFurther

(* the user of the Microsoft list edits a task after the engine last       *)
(* wrote a stamp: lastModifiedDateTime is then later than every stamp of   *)
(* the snapshot                                                            *)
EditedLater ==
  \A n \in NativeIds :
    rows[n].present => rows[n].msMod < clock /\ rows[n].tdMod < clock

NextMsLive ==
  \/ nextNative = 1 /\ MsAddItem
  \/ EditedLater /\ MsEditItem
  \/ TodoistEditTask
  \/ Tick
  \/ MsPass

SpecMsLive == InitMsLive /\ [][NextMsLive]_vars /\ WF_vars(MsPass)

(* the row n links a Microsoft task and a Todoist task that both exist *)
MatchedPair(n) ==
  /\ rows[n].present
  /\ remote[n].present
  /\ rows[n].tid # Null
  /\ Live(rows[n].tid)

PairAgrees(n) ==
  /\ remote[n].title = todoist[rows[n].tid].content
  /\ (remote[n].status = "completed") = todoist[rows[n].tid].done

Converged == \A n \in NativeIds : MatchedPair(n) => PairAgrees(n)

(* C37: bi-directional convergence.  When the edits stop on both platforms *)
(* and no call fails, the passes that follow bring every matched pair to   *)
(* the same title and the same completion state, and keep it there.        *)
C37_PairsConverge == [](fails = 0) => <>[]Converged

----------------------------------------------------------------------------
(* What a one-way pass leaves in the snapshot table *)

(* the row describes the fetched item and the configured tags *)
RowDescribes(row, item) ==
  /\ row.tid # Null
  /\ row.title = item.title
  /\ row.done = item.done
  /\ row.due = item.due
  /\ row.upd = item.upd
  /\ tagsEqual(parseStoredTags(row.tags), Tags)

(* C38: one-way post-condition.  After a one-way pass in which every       *)
(* external call succeeded, with delete_after_sync off, the snapshot rows  *)
(* are exactly those of the fetched native ids; each has a mirrored id,    *)
(* its title, status, due date and update stamp are the fetched item's,    *)
(* and its applied tags are the configured labels.                         *)
C38_RowsAreTheFetch ==
  (PassEnded /\ clean /\ ~mapping.delete_after_sync) =>
    \A n \in NativeIds :
      /\ rows[n].present <=> fetched[n].present
      /\ rows[n].present => RowDescribes(rows[n], fetched[n])

(* a pass that created a row, refreshed another and had nothing fail *)
C38_CreatedAndRefreshed ==
  /\ PassEnded /\ clean /\ ~mapping.delete_after_sync
  /\ \E n, m \in NativeIds :
       /\ rows[n].present /\ ~storedAtFetch[n].present
       /\ rows[m].present /\ storedAtFetch[m].present
       /\ rows[m] # storedAtFetch[m]

----------------------------------------------------------------------------
(* The status stored by the completion reconciliation *)

(* C39: after the completion-status reconciliation of a matched pair       *)
(* succeeded, the status stored in the snapshot row is the completion      *)
(* state the two platforms now share, whichever side won.                  *)
C39_StoredStatusIsShared ==
  [][\A n \in NativeIds :
       (CompletionMismatch(n) /\ \A i \in NewCalls : calls'[i].ok) =>
         /\ (remote'[n].status = "completed") = todoist'[rows'[n].tid].done
         /\ (rows'[n].status = "completed") = (remote'[n].status = "completed")
    ]_vars

----------------------------------------------------------------------------
(* The daemon once shutdown is initiated *)

(* C40: once shutdown has been initiated no pass is started for any        *)
(* source: the pending timers are cleared, no timer is armed afterwards    *)
(* and the number of passes in flight of a source never grows.             *)
C40_NoPassAfterShutdown ==
  [][/\ isShuttingDown' => \A s \in DOMAIN managed' : ~managed'[s].timer
     /\ isShuttingDown =>
          \A s \in DOMAIN managed :
            managed'[s].inflight <= managed[s].inflight]_vars

(* shutdown came while one source had a pass in flight and another was     *)
(* waiting for its timer                                                   *)
C40_StoppedWhilePolling ==
  /\ isShuttingDown
  /\ \E s, t \in DOMAIN managed :
       /\ s # t
       /\ managed[s].init = "polling" /\ managed[s].inflight = 1
       /\ managed[t].init = "polling" /\ managed[t].inflight = 0
       /\ ~managed[t].timer

====
